---- MODULE Spec2Model ----
(***************************************************************************)
(* A model of wclib's template memoizer (src/lib/template-fn.ts) and of    *)
(* its server-side renderer (src/lib/ssr/ssr.ts).                          *)
(***************************************************************************)
EXTENDS Integers, Sequences, FiniteSets, TLC

(***************************************************************************)
(* CHANGE_TYPE, template-fn.ts:12-39                                       *)
(***************************************************************************)
PROP == 1
THEME == 2
NEVER == 4
LANG == 8
ALWAYS == 11
FORCE == 27

\* CHANGE_TYPE.NEVER | CHANGE_TYPE.PROP: masks "can be combined"
\* (template-fn.ts:7-10); ssr.ts:628 tests "changeOn & NEVER" for such masks.
NEVER_OR_PROP == NEVER + PROP

\* the bitwise & of two non-negative numbers
RECURSIVE BitAnd(_, _)
BitAnd(a, b) ==
    IF a = 0 \/ b = 0 THEN 0
    ELSE (a % 2) * (b % 2) + 2 * BitAnd(a \div 2, b \div 2)

\* the number of render calls a behaviour of the memoizer makes
MaxCalls == 3

\* the change masks a TemplateFn is constructed with
Masks == {PROP, NEVER, NEVER_OR_PROP, ALWAYS}

\* the change reasons render calls are made with
Reasons == {PROP, THEME, FORCE}

\* component instances
Components == {"c1", "c2"}

\* JS values: null, the value of a missing map entry, and render results
NULL == "null"
UNDEFINED == "undefined"
RenderResults == {NULL, "", "A", "B"}

\* JS truthiness of a cached value (template-fn.ts:318, "if (cached)")
Truthy(v) == v \notin {NULL, UNDEFINED, ""}

\* what invoking the render function does: it returns a result or throws
THROWS == "throws"
FnOutcomes == RenderResults \cup {THROWS}

\* templater identities: the static TemplateFn._textRenderer, a component's
\* generateHTMLTemplate, and "no usable templater"
TextRenderer == "_textRenderer"
HtmlTemplater == "generateHTMLTemplate"
NoTemplater == "none"

\* component.generateHTMLTemplate (template-fn.ts:415-416): c1 has the
\* template manager mixin, c2 does not
GenerateHTMLTemplate(component) ==
    IF component = "c1" THEN HtmlTemplater ELSE NoTemplater

VARIABLES
    changeOn,           \* TemplateFn.changeOn
    template,           \* TemplateFn._template: "null" or "fn"
    templaterMap,       \* templaters -> components -> functions -> results
    lastRenderChanged,  \* TemplateFn._lastRenderChanged
    call,               \* what the last render call did and returned
    nCalls              \* the number of render calls made

memoVars == <<changeOn, template, templaterMap, lastRenderChanged, call, nCalls>>

VARIABLES
    session,            \* the DocumentSession shared by the renders
    log,                \* the expansions made in the session, in order
    outputs,            \* what each renderElement call returned or threw
    built,              \* what the last direct buildMap call returned or threw
    nRenders,           \* the number of renderElement calls made
    nInstances,         \* the number of component instances constructed
    slotted             \* the arguments and the result of a direct applySlots

ssrVars == <<session, log, outputs, built, nRenders, nInstances, slotted>>

VARIABLES
    textResult,         \* the render result a renderAsText call got
    asText              \* what that renderAsText call returned or threw

textVars == <<textResult, asText>>

VARIABLES
    templateFns,        \* changeOn and _lastRenderChanged of each TemplateFn
    jsx,                \* templater.jsx: the component each builder is bound to
    frames,             \* the render functions that are running, innermost last
    decided,            \* what the last _renderWithTemplater call decided
    jsxCall,            \* the last call of html.jsx by a render function
    produced,           \* what renderTemplate last returned, by template and component
    ifNew,              \* what the last renderIfNew call did
    nRenderCalls        \* the number of render calls made

nestedVars == <<templateFns, jsx, frames, decided, jsxCall, produced, ifNew,
                nRenderCalls>>

VARIABLES
    attached,           \* the event listeners of the elements and of the base
    listenedToElements, \* Listeners.listenedToElements.get(base)
    registrations,      \* the registrations made, with the functions returned
    dollar,             \* base.$: the element each id stands for
    usedElements        \* the elements isNewElement has seen for the base

listenerVars == <<attached, listenedToElements, registrations, dollar,
                  usedElements>>

VARIABLES
    langFiles,          \* I18NClass.langFiles: the languages whose file is loaded
    langPromises,       \* I18NClass.__langPromises, with the state of each promise
    loadingLang,        \* I18NClass.__loadingLang
    currentLang,        \* I18NClass.currentLang
    defaultLang,        \* I18NClass.defaultLang
    elementLang,        \* I18NClass._elementLang of the component
    waiters,            \* the continuations that await each language promise
    microtasks,         \* the continuations that are ready to run, first first
    loads,              \* the loadCurrentLang calls made and their promises
    nLangChanges        \* the number of setLang and initI18N calls made

i18nVars == <<langFiles, langPromises, loadingLang, currentLang, defaultLang,
              elementLang, waiters, microtasks, loads, nLangChanges>>

restVars == <<textVars, nestedVars, listenerVars, i18nVars>>

vars == <<memoVars, ssrVars, restVars>>

\* the one TemplateFn object of the memoizer's behaviours
This == "T"

NoCall ==
    [method |-> "none", key |-> <<>>, changeType |-> 0, hadEntry |-> FALSE,
     before |-> UNDEFINED, afterThrow |-> FALSE, invoked |-> FALSE,
     threw |-> FALSE, changed |-> FALSE, rendered |-> UNDEFINED,
     text |-> UNDEFINED]

\* templaterMap.get(templater).get(component).get(template)
MapGet(map, key) == IF key \in DOMAIN map THEN map[key] ELSE UNDEFINED

\* a set that keeps the entry a key already has
MapSetKeepsOld(map, key, v) ==
    IF key \in DOMAIN map THEN map
    ELSE [k \in DOMAIN map \cup {key} |-> IF k = key THEN v ELSE map[k]]

\* templateMap.set(this, rendered), template-fn.ts:330 and 344
MapSet(map, key, v) ==
    [k \in DOMAIN map \cup {key} |-> IF k = key THEN v ELSE map[k]]

\* a key made of the templater as it was given
EffectiveTemplaterAsGiven(templater, component) == templater

\* template-fn.ts:296-298: without a usable templater the component is the key
EffectiveTemplater(templater, component) ==
    IF templater = NoTemplater THEN component ELSE templater

\* template-fn.ts:336-337
ShouldRerender(mask, changeType, hasEntry) ==
    BitAnd(mask, changeType) # 0 \/ ~hasEntry

\* template-fn.ts:318
NeverCacheHit(cached) == Truthy(cached)

\* TemplateFn._renderWithTemplater, template-fn.ts:288-356, of the template
\* `this`.  fnOutcome is what the render function does if this call invokes
\* it.  The result holds the returned {changed, rendered}, whether the call
\* threw, whether the render function was invoked, and the map after the
\* call.
RenderWithTemplater(this, map, mask, tmpl, changeType, component, templater, fnOutcome) ==
    LET key == <<EffectiveTemplater(templater, component), component, this>>
        cached == MapGet(map, key)
        hasEntry == key \in DOMAIN map
        hit == [changed |-> FALSE, rendered |-> cached, threw |-> FALSE,
                invoked |-> FALSE, map |-> map]
        thrown == [changed |-> FALSE, rendered |-> UNDEFINED, threw |-> TRUE,
                   invoked |-> tmpl # "null", map |-> map]
        computed(r) == [changed |-> TRUE, rendered |-> r, threw |-> FALSE,
                        invoked |-> tmpl # "null", map |-> MapSet(map, key, r)]
    IN  IF BitAnd(mask, NEVER) # 0
        THEN IF NeverCacheHit(cached) THEN hit
             ELSE IF tmpl = "null" THEN computed(NULL)
             ELSE IF fnOutcome = THROWS THEN thrown
             ELSE computed(fnOutcome)
        ELSE IF ShouldRerender(mask, changeType, hasEntry)
             THEN \* (null).call(...) is a TypeError
                  IF tmpl = "null" \/ fnOutcome = THROWS THEN thrown
                  ELSE computed(fnOutcome)
             ELSE hit

\* a conversion without the null check of template-fn.ts:367
TemplateResultToTextNoNullCheck(result) ==
    IF result = UNDEFINED THEN "" ELSE result

\* TemplateFn._templateResultToText, template-fn.ts:366-381, for the results
\* of this model (null and undefined give the empty string)
TemplateResultToText(result) ==
    IF result \in {NULL, UNDEFINED} THEN "" ELSE result

\* the record of a call of `method` that went through _renderWithTemplater
CallRecord(method, changeType, component, templater, res, text) ==
    LET key == <<EffectiveTemplater(templater, component), component, This>>
    IN  [method |-> method, key |-> key, changeType |-> changeType,
         hadEntry |-> key \in DOMAIN templaterMap,
         before |-> MapGet(templaterMap, key),
         afterThrow |-> call.key = key /\ call.invoked /\ call.threw,
         invoked |-> res.invoked, threw |-> res.threw,
         changed |-> res.changed, rendered |-> res.rendered, text |-> text]

\* the state change of a render method: a throw leaves _lastRenderChanged
\* alone (template-fn.ts:395, 417, 439 are not reached)
Commit(method, changeType, component, templater, res, text) ==
    /\ templaterMap' = res.map
    /\ lastRenderChanged' = IF res.threw THEN lastRenderChanged ELSE res.changed
    /\ call' = CallRecord(method, changeType, component, templater, res, text)
    /\ nCalls' = nCalls + 1
    /\ UNCHANGED <<changeOn, template>>
    /\ UNCHANGED <<ssrVars, restVars>>

\* TemplateFn.renderAsText, template-fn.ts:391-401
RenderAsText ==
    \E changeType \in Reasons, component \in Components, fnOutcome \in FnOutcomes :
        LET res == RenderWithTemplater(This, templaterMap, changeOn, template,
                       changeType, component, TextRenderer, fnOutcome)
            text == IF res.threw THEN UNDEFINED
                    ELSE TemplateResultToText(res.rendered)
        IN  /\ nCalls < MaxCalls
            /\ Commit("renderAsText", changeType, component, TextRenderer, res, text)

\* TemplateFn.renderTemplate, template-fn.ts:413-419
RenderTemplate ==
    \E changeType \in Reasons, component \in Components, fnOutcome \in FnOutcomes :
        LET templater == GenerateHTMLTemplate(component)
            res == RenderWithTemplater(This, templaterMap, changeOn, template,
                       changeType, component, templater, fnOutcome)
        IN  /\ nCalls < MaxCalls
            /\ Commit("renderTemplate", changeType, component, templater, res, UNDEFINED)

\* TemplateFn.renderSame, template-fn.ts:435-441
RenderSame ==
    \E changeType \in Reasons, component \in Components, fnOutcome \in FnOutcomes,
       templater \in {HtmlTemplater} :
        LET res == RenderWithTemplater(This, templaterMap, changeOn, template,
                       changeType, component, templater, fnOutcome)
        IN  /\ nCalls < MaxCalls
            /\ Commit("renderSame", changeType, component, templater, res, UNDEFINED)

(***************************************************************************)
(* Server-side rendering, ssr.ts                                           *)
(***************************************************************************)

\* the number of renderElement calls a behaviour makes
MaxRenders == 2

\* the depth of recursion at which the JS engine gives up with a RangeError
MaxStackDepth == 6

\* Component definitions (BaseTypes.BaseClass, ssr.ts:78-86).  Their shape
\* follows the root/parent/test elements of the repository's fixtures;
\* TestElementB is a second definition that declares the tag test-element,
\* CycA and CycB depend on each other, SelfDep lists itself, Anon has no tag.
\* Wrapper holds a custom element inside a div and one beside it; SlotHost
\* and SlotTop hold slot elements, SlotNamed holds no unnamed one, SlotUser
\* passes content to them; MyEl has stylesheets of every kind of mask; PropEl has a property
\* configuration and sets attributes on itself; Thrower's render functions
\* throw when asked to by an attribute, and Outer nests a throwing Thrower.
Defs ==
    {"TestElement", "TestElementB", "ParentElement", "RootElement",
     "CycA", "CycB", "SelfDep", "Anon",
     "Wrapper", "SlotHost", "SlotTop", "SlotNamed", "SlotUser",
     "MyEl", "PropEl", "Thrower", "Outer"}

\* element.is
Is(element) ==
    CASE element = "TestElement" -> "test-element"
      [] element = "TestElementB" -> "test-element"
      [] element = "ParentElement" -> "parent-element"
      [] element = "RootElement" -> "root-element"
      [] element = "CycA" -> "cyc-a"
      [] element = "CycB" -> "cyc-b"
      [] element = "SelfDep" -> "self-dep"
      [] element = "Wrapper" -> "wrap-el"
      [] element = "SlotHost" -> "slot-host"
      [] element = "SlotTop" -> "slot-top"
      [] element = "SlotNamed" -> "slot-named"
      [] element = "SlotUser" -> "slot-user"
      [] element = "MyEl" -> "my-el"
      [] element = "PropEl" -> "prop-el"
      [] element = "Thrower" -> "thrower-el"
      [] element = "Outer" -> "outer-el"
      [] OTHER -> NULL

\* element.dependencies
Dependencies(element) ==
    CASE element = "ParentElement" -> <<"TestElement">>
      [] element = "RootElement" -> <<"ParentElement", "TestElementB">>
      [] element = "CycA" -> <<"CycB">>
      [] element = "CycB" -> <<"CycA">>
      [] element = "SelfDep" -> <<"SelfDep">>
      [] element = "Wrapper" -> <<"TestElement", "PropEl">>
      [] element = "SlotUser" ->
            <<"SlotHost", "SlotTop", "SlotNamed", "TestElement">>
      [] element = "Outer" -> <<"TestElement", "Thrower">>
      [] OTHER -> <<>>

\* CHANGE_TYPE.PROP | CHANGE_TYPE.THEME
PROP_OR_THEME == PROP + THEME

\* element.css: the change mask of each css template of the definition
Css(element) ==
    CASE element = "TestElement" -> <<NEVER>>
      [] element = "TestElementB" -> <<PROP>>
      [] element = "ParentElement" -> <<THEME, PROP>>
      [] element = "RootElement" -> <<NEVER>>
      [] element = "Anon" -> <<ALWAYS>>
      [] element = "SlotTop" -> <<PROP>>
      [] element = "MyEl" -> <<PROP, LANG, PROP_OR_THEME, NEVER_OR_PROP, THEME>>
      [] element = "PropEl" -> <<NEVER>>
      [] element = "Thrower" -> <<PROP>>
      [] OTHER -> <<>>

\* element.html.changeOn; a definition outside this list has no html
\* template (html?: TemplateFnLike | null, ssr.ts:84)
HtmlChangeOn(element) ==
    CASE element \in {"RootElement", "ParentElement", "Wrapper", "SlotHost",
                      "SlotTop", "SlotNamed", "SlotUser", "Outer",
                      "PropEl"} -> NEVER
      [] element \in {"TestElement", "TestElementB", "Anon", "MyEl",
                      "Thrower"} -> PROP
      [] OTHER -> 0
HasHtml(element) == HtmlChangeOn(element) # 0

\* props.__config.reflect and props.__config.priv of the definition's
\* instances (ssr.ts:217-231): the keys of the two groups
HasPropsConfig(element) == element = "PropEl"
Reflect(element) == IF element = "PropEl" THEN {"x"} ELSE {}
Priv(element) == IF element = "PropEl" THEN {"p"} ELSE {}

\* _Parser._VOID_TAGS, ssr.ts:380-397 (the ones the fixtures could use)
VoidTags == {"br", "hr", "img", "input", "link", "meta"}

\* tagName.includes('-'), ssr.ts:569 and 804: the plain tag names have none
PlainTags == {"div", "h1", "style", "slot", "span", "b", "i"} \cup VoidTags
HasDash(tagName) == tagName \notin PlainTags

\* JS attribute values: a string, held as the list of its words (the string
\* split at spaces), and undefined
Str(words) == [typeof |-> "string", words |-> words]
Undef == [typeof |-> "undefined", words |-> <<>>]

\* an attribute map without attributes
NoAttributes == [a \in {} |-> Undef]

\* new Tag({...}), ssr.ts:282-297, and new TextTag({content}), ssr.ts:364-366
TagNode(tagName, attributes, children) ==
    [type |-> "TAG", tagName |-> tagName, attributes |-> attributes,
     isSelfClosing |-> tagName \in VoidTags, children |-> children]
TextNode(content) == [type |-> "TEXT", content |-> content]

\* the themes a render is given, and what getTheme() returns (ssr.ts:145)
Themes == {"light", "dark"}

\* this.getAttribute(name), ssr.ts:133-135, as the text a template puts
\* into its markup
GetAttribute(attribs, name) ==
    IF name \in DOMAIN attribs /\ attribs[name].typeof = "string"
          /\ attribs[name].words # <<>>
    THEN attribs[name].words[1] ELSE UNDEFINED
\* this.hasAttribute(name), ssr.ts:136-138
HasAttribute(attribs, name) == name \in DOMAIN attribs

\* what a definition's html template reads of its instance: PropEl puts
\* its attribute x into its markup (the ${props.x} of the fixtures)
HtmlParam(element, attribs, theme) ==
    IF element = "PropEl" THEN GetAttribute(attribs, "x") ELSE ""
\* what css template i reads of its instance: MyEl's fifth sheet uses the
\* theme (the ${theme.primary} of the fixtures)
\* and Thrower's sheet is text that is no css when the instance has the
\* attribute badcss
CssParam(element, i, attribs, theme) ==
    IF element = "MyEl" /\ i = 5 THEN theme
    ELSE IF element = "Thrower" /\ HasAttribute(attribs, "badcss") THEN "bad"
    ELSE ""
Params == {"", UNDEFINED, "1", "2", "bad"} \cup Themes

\* the text a template's render function returns
HtmlText(element, param) == element \o ".html(" \o param \o ")"
CssText(element, i, param) ==
    element \o ".css" \o ToString(i) \o "(" \o param \o ")"

\* the outcome of a definition's html render function for an instance:
\* Thrower's throws when the instance has the attribute fail
RenderHtml(element, attribs, theme) ==
    IF element = "Thrower" /\ HasAttribute(attribs, "fail") THEN THROWS
    ELSE HtmlText(element, HtmlParam(element, attribs, theme))
\* the outcome of the render function of css template i: Thrower's throws
\* when the instance has the attribute failcss
RenderCss(element, i, attribs, theme) ==
    IF element = "Thrower" /\ HasAttribute(attribs, "failcss") THEN THROWS
    ELSE CssText(element, i, CssParam(element, i, attribs, theme))

\* a slot element
Slot(attributes, children) == TagNode("slot", attributes, children)
TestElementTag == TagNode("test-element", NoAttributes, <<>>)

\* _Parser.parse of a definition's html text, ssr.ts:444-453: the tags of
\* its markup.  A class attribute holds the list of its class names.
HtmlTags(element, param) ==
    CASE element = "TestElement" ->
            <<TagNode("div", [class |-> Str(<<"divClass">>)], <<TextNode("Test")>>)>>
      [] element = "TestElementB" ->
            <<TagNode("h1", NoAttributes, <<>>)>>
      [] element = "ParentElement" -> <<TestElementTag>>
      [] element = "RootElement" ->
            <<TestElementTag,
              TagNode("parent-element", NoAttributes, <<>>),
              TagNode("parent-element", NoAttributes, <<>>),
              TestElementTag>>
      [] element = "Anon" ->
            <<TagNode("div", NoAttributes, <<TestElementTag>>)>>
      [] element = "Wrapper" ->
            <<TagNode("div", [class |-> Str(<<"box">>)],
                      <<TagNode("span", NoAttributes, <<TextNode("in")>>),
                        TagNode("test-element", [class |-> Str(<<"inner">>)], <<>>)>>),
              TagNode("prop-el",
                      [class |-> Str(<<"mine">>), x |-> Str(<<"2">>)], <<>>)>>
      [] element = "SlotHost" ->
            <<TagNode("div", NoAttributes,
                      <<Slot([name |-> Str(<<"a">>)], <<>>),
                        Slot(NoAttributes, <<>>)>>)>>
      [] element = "SlotTop" ->
            <<Slot([name |-> Str(<<"a">>)], <<TextNode("defaultA")>>),
              Slot(NoAttributes, <<TextNode("default")>>)>>
      [] element = "SlotNamed" ->
            <<Slot([name |-> Str(<<"a">>)], <<>>),
              TagNode("span", NoAttributes, <<TextNode("own")>>)>>
      [] element = "SlotUser" ->
            <<TagNode("slot-host", NoAttributes,
                      <<TagNode("span", [slot |-> Str(<<"a">>)], <<TextNode("X")>>),
                        TagNode("b", NoAttributes, <<TextNode("Y")>>)>>),
              TagNode("slot-top", NoAttributes,
                      <<TagNode("test-element", [slot |-> Str(<<"a">>)], <<>>),
                        TagNode("b", NoAttributes, <<TextNode("Y")>>),
                        TagNode("i", [slot |-> Str(<<"z">>)], <<TextNode("Z")>>)>>),
              TagNode("slot-named", [class |-> Str(<<"n">>)],
                      <<TagNode("b", NoAttributes, <<TextNode("Y")>>),
                        TagNode("i", [slot |-> Str(<<"z">>)], <<TextNode("Z")>>)>>)>>
      [] element = "MyEl" ->
            <<TagNode("span", [class |-> Str(<<"foo">>)], <<>>)>>
      [] element = "PropEl" ->
            <<TagNode("h1", NoAttributes, <<TextNode(param)>>)>>
      [] element = "Thrower" ->
            <<TagNode("b", NoAttributes, <<>>)>>
      [] element = "Outer" ->
            <<TestElementTag,
              TagNode("thrower-el", [fail |-> Str(<<"1">>)], <<>>)>>
      [] OTHER -> <<>>

\* the rules of the css library's stylesheet AST: a rule with selectors and
\* declarations, and an @media rule that holds rules
Rule(selectors, declarations) ==
    [type |-> "rule", selectors |-> selectors, declarations |-> declarations]
Media(media, rules) == [type |-> "media", media |-> media, rules |-> rules]

\* parseCSS of the text of the style tag of css template i, ssr.ts:656-662:
\* the rules of the stylesheet
\* whether parseCSS returns for the text of css template i (it throws
\* on text that is no css)
CssParses(element, i, param) == param # "bad"
CssRules(element, i, param) ==
    CASE element = "MyEl" /\ i = 1 -> <<Rule(<<".foo">>, "color: red")>>
      [] element = "MyEl" /\ i = 2 ->
            <<Rule(<<"a", "b">>, "color: red"),
              Media("print", <<Rule(<<".bar">>, "color: red")>>)>>
      [] element = "MyEl" /\ i = 5 -> <<Rule(<<"h1">>, "color: " \o param)>>
      [] OTHER -> <<Rule(<<"*">>, "color: red")>>

\* no direct buildMap call was made yet; a render that returned nothing
NoBuilt == [element |-> NULL, status |-> "none", map |-> <<>>]
NoDom == [type |-> "NONE"]

\* new DocumentSession(), ssr.ts:62-69
NewSession ==
    [_cssIdentifierMap |-> <<>>, _sheetSet |-> {}, _unnamedElements |-> 1,
     _elementMap |-> <<>>]

\* a registration that keeps the definition a tag is already bound to
RegisterIfAbsent(map, element) ==
    IF Is(element) = NULL \/ Is(element) \in DOMAIN map THEN map
    ELSE [t \in DOMAIN map \cup {Is(element)} |->
             IF t = Is(element) THEN element ELSE map[t]]

\* ssr.ts:261-263, map[element.is] = element
Register(map, element) ==
    IF Is(element) = NULL THEN map
    ELSE [t \in DOMAIN map \cup {Is(element)} |->
             IF t = Is(element) THEN element ELSE map[t]]

\* Dependencies.buildMap, ssr.ts:257-270.  acc is {map, overflow}; the
\* recursion has no visited set, so it ends on a cycle only when the call
\* stack is exhausted (overflow, a RangeError).
RECURSIVE BuildMapRec(_, _, _)
RECURSIVE BuildMapDeps(_, _, _, _)
BuildMapRec(element, acc, depth) ==
    IF acc.overflow THEN acc
    ELSE IF depth > MaxStackDepth THEN [acc EXCEPT !.overflow = TRUE]
    ELSE BuildMapDeps(Dependencies(element), 1,
                      [acc EXCEPT !.map = Register(acc.map, element)], depth)
BuildMapDeps(deps, i, acc, depth) ==
    IF i > Len(deps) \/ acc.overflow THEN acc
    ELSE BuildMapDeps(deps, i + 1, BuildMapRec(deps[i], acc, depth + 1), depth)

buildMap(element) == BuildMapRec(element, [map |-> <<>>, overflow |-> FALSE], 1)

\* the object spread {...old, ...new}, ssr.ts:913-917 and 950-953
MergeMaps(old, new) ==
    [t \in DOMAIN old \cup DOMAIN new |->
        IF t \in DOMAIN new THEN new[t] ELSE old[t]]

\* JS errors: the error a fixture's render function throws, the RangeError
\* of an exhausted call stack, and no error
NoSource == [name |-> "none", message |-> "", stack |-> ""]
NoError == [name |-> "none", message |-> "", stack |-> "", source |-> NoSource]
Thrown(this) ==
    [name |-> "Error", message |-> "thrown by " \o this,
     stack |-> "stack of " \o this]
RangeError ==
    [name |-> "RangeError", message |-> "Maximum call stack size exceeded",
     stack |-> "", source |-> NoSource]

\* a wrapper that keeps its own message and stack
RenderErrorOwnTrace(e) ==
    [name |-> "RenderError", message |-> e.message, stack |-> "",
     source |-> e]

\* new Errors.RenderError(e.message, e), ssr.ts:29-37 and 53-55
RenderError(e) ==
    [name |-> "RenderError",
     message |-> "Error while rendering component on the server: "
                    \o e.name \o ", " \o e.message,
     stack |-> e.stack, source |-> e]

\* the error parseCSS throws on a text
ParserError(content) ==
    [name |-> "Error", message |-> "css parse error in " \o content,
     stack |-> "stack of parseCSS"]

\* a failure to parse reported as a failure to render
CSSParseErrorAsRenderError(e, file) ==
    [name |-> "RenderError",
     message |-> "Error while rendering component on the server: "
                    \o e.name \o ", " \o e.message,
     stack |-> e.stack, source |-> e]

\* new Errors.CSSParseError(e.message, e, file), ssr.ts:39-51 and 57-59
CSSParseError(e, file) ==
    [name |-> "CSSParseError",
     message |-> "Error while parsing rendered CSS: " \o e.name \o ", "
                    \o e.message \o "\n" \o e.stack \o "\nIn CSS file: " \o file,
     stack |-> e.stack, source |-> e, file |-> file]

\* the templates whose text the parsers are given, with what they read
HtmlSources ==
    UNION {{<<e, p>> : p \in (IF e = "PropEl" THEN Params \ Themes ELSE {""})} :
              e \in {d \in Defs : HasHtml(d)}}
CssSources ==
    UNION {UNION {{<<e, i, p>> :
                     p \in (IF e = "MyEl" /\ i = 5 THEN Themes
                            ELSE IF e = "Thrower" THEN {"", "bad"}
                            ELSE {""})} :
                  i \in DOMAIN Css(e)} :
              e \in Defs}

\* _Parser.parse(text), ssr.ts:444-453, of the text of an html template
Parse(text) ==
    IF text = "" THEN <<>>
    ELSE LET src == CHOOSE s \in HtmlSources : HtmlText(s[1], s[2]) = text
         IN  HtmlTags(src[1], src[2])

\* _Parser.parse and CSSText.parse of the text of a css template,
\* ssr.ts:713-719 and 656-662: the definition and template the text is of,
\* and the rules of its style tag; parses tells whether parseCSS returns
ParseCSS(text) ==
    LET src == CHOOSE s \in CssSources : CssText(s[1], s[2], s[3]) = text
    IN  [owner |-> <<src[1], src[2]>>, rules |-> CssRules(src[1], src[2], src[3]),
         parses |-> CssParses(src[1], src[2], src[3])]

\* a _tryRender that asks the memoizer with the definition as the component
TryRenderKeyedByDefinition(instance, element, this, mask, fnOutcome, ctx) ==
    LET res == RenderWithTemplater(this, ctx.cache, mask, "fn", ALWAYS,
                                   element, TextRenderer, fnOutcome)
    IN  IF res.threw
        THEN [text |-> "", ctx |-> [ctx EXCEPT !.cache = res.map,
                                       !.error = RenderError(Thrown(this))]]
        ELSE [text |-> TemplateResultToText(res.rendered),
              ctx |-> [ctx EXCEPT !.cache = res.map]]

\* _tryRender, ssr.ts:867-879, of the template `this` of the definition,
\* which is not null: template.renderAsText(CHANGE_TYPE.ALWAYS, instance)
\* through the process-wide cache of the memoizer; ctx.error is what the
\* call threw.
TryRender(instance, element, this, mask, fnOutcome, ctx) ==
    LET res == RenderWithTemplater(this, ctx.cache, mask, "fn", ALWAYS,
                                   instance, TextRenderer, fnOutcome)
    IN  IF res.threw
        THEN [text |-> "", ctx |-> [ctx EXCEPT !.cache = res.map,
                                       !.error = RenderError(Thrown(this))]]
        ELSE [text |-> TemplateResultToText(res.rendered),
              ctx |-> [ctx EXCEPT !.cache = res.map]]

\* _Properties.splitAttributes, ssr.ts:209-252: the attributes and the
\* public properties (the private ones are not used by the caller).  Line
\* 243 assigns attribs[key] = attribs[key], the undefined value of the new
\* object's own key.
SplitAttributes(element, attributes) ==
    IF ~HasPropsConfig(element)
    THEN [attributes |-> attributes, publicProps |-> NoAttributes]
    ELSE [attributes |->
             [k \in DOMAIN attributes \ (Reflect(element) \cup Priv(element))
                 |-> Undef],
          publicProps |->
             [k \in DOMAIN attributes \cap Reflect(element) |-> attributes[k]]]

\* instance._attributes after the render, ssr.ts:139-144: PropEl's render
\* calls this.setAttribute('id', 'self') and, given the attribute x="2",
\* this.setAttribute('x', 'two')
InstanceAttributes(element, attribs) ==
    IF element # "PropEl" THEN NoAttributes
    ELSE IF GetAttribute(attribs, "x") = "2"
    THEN [id |-> Str(<<"self">>), x |-> Str(<<"two">>)]
    ELSE [id |-> Str(<<"self">>)]

\* Tag.walk, ssr.ts:328-335: the walk goes on into the children of a tag
\* only if the handler returned a result and the result does not say stop
\* (a handler that returns nothing counts as {stop: true})
WalkStops(handled, stop) == ~handled \/ stop

\* a for-in loop over a JS object visits the keys that are array indexes
\* first, in ascending order, and the other keys in insertion order
ArrayIndexes == 0..9
IsArrayIndex(key) == \E n \in ArrayIndexes : ToString(n) = key
IndexOf(key) == CHOOSE n \in ArrayIndexes : ToString(n) = key
RECURSIVE IndexKeysFrom(_, _)
IndexKeysFrom(keys, n) ==
    IF n \notin ArrayIndexes THEN <<>>
    ELSE (IF \E k \in DOMAIN keys : keys[k] = ToString(n)
          THEN <<ToString(n)>> ELSE <<>>) \o IndexKeysFrom(keys, n + 1)
RECURSIVE OtherKeysFrom(_, _)
OtherKeysFrom(keys, k) ==
    IF k > Len(keys) THEN <<>>
    ELSE (IF IsArrayIndex(keys[k]) THEN <<>> ELSE <<keys[k]>>)
         \o OtherKeysFrom(keys, k + 1)
\* keys: the distinct keys of the object in insertion order
ForInOrder(keys) == IndexKeysFrom(keys, 0) \o OtherKeysFrom(keys, 1)

\* the paths (child indexes from the root list) of the slot elements that
\* the walk of _findSlotReceivers reaches, in document order, ssr.ts:475-498
RECURSIVE SlotPaths(_, _, _)
SlotPaths(tags, k, path) ==
    IF k > Len(tags) THEN <<>>
    ELSE LET tag == tags[k]
             here == Append(path, k)
         IN  (IF tag.type # "TAG" THEN <<>>
              ELSE IF tag.tagName = "slot" THEN <<here>>
              ELSE IF WalkStops(FALSE, FALSE) THEN <<>>
              ELSE SlotPaths(tag.children, 1, here))
             \o SlotPaths(tags, k + 1, path)

\* the tag at a path
RECURSIVE TagAt(_, _)
TagAt(tags, path) ==
    IF Len(path) = 1 THEN tags[path[1]]
    ELSE TagAt(tags[path[1]].children, Tail(path))

\* the tags with the children of the tag at a path replaced (setChildren of
\* a tag of the tree, ssr.ts:316-319)
RECURSIVE SetChildrenAt(_, _, _)
SetChildrenAt(tags, path, children) ==
    [k \in DOMAIN tags |->
        IF k # path[1] THEN tags[k]
        ELSE IF Len(path) = 1 THEN [tags[k] EXCEPT !.children = children]
        ELSE [tags[k] EXCEPT !.children =
                 SetChildrenAt(tags[k].children, Tail(path), children)]]

\* _findSlotReceivers, ssr.ts:468-500: {named, unnamed} as paths into root;
\* named holds the first slot of each name, unnamed the first slot without
\* a name (<<>> stands for null)
FindSlotReceivers(root) ==
    LET paths == SlotPaths(root, 1, <<>>)
        HasName(p) == "name" \in DOMAIN TagAt(root, p).attributes
        NameOf(p) == TagAt(root, p).attributes["name"].words[1]
        namedAt == {k \in DOMAIN paths : HasName(paths[k])}
        unnamedAt == DOMAIN paths \ namedAt
        names == {NameOf(paths[k]) : k \in namedAt}
        First(S) == CHOOSE k \in S : \A j \in S : k <= j
    IN  [named |-> [n \in names |->
                       paths[First({k \in namedAt : NameOf(paths[k]) = n})]],
         unnamed |-> IF unnamedAt = {} THEN <<>> ELSE paths[First(unnamedAt)]]

\* _findSlottables, ssr.ts:502-529: named holds the first tag of each slot
\* name, as the object's keys in for-in order and its values; unnamed the
\* tags without slot attribute.  A text node is neither (TextTag.walk,
\* ssr.ts:368-370, does not call the handler).
FindSlottables(root) ==
    LET IsTag(k) == root[k].type = "TAG"
        HasSlot(k) == IsTag(k) /\ "slot" \in DOMAIN root[k].attributes
        SlotOf(k) == root[k].attributes["slot"].words[1]
        IsFirst(k) == HasSlot(k) /\ \A j \in 1..(k - 1) :
                                       HasSlot(j) => SlotOf(j) # SlotOf(k)
        RECURSIVE KeysFrom(_)
        KeysFrom(k) ==
            IF k > Len(root) THEN <<>>
            ELSE (IF IsFirst(k) THEN <<SlotOf(k)>> ELSE <<>>) \o KeysFrom(k + 1)
        RECURSIVE UnnamedFrom(_)
        UnnamedFrom(k) ==
            IF k > Len(root) THEN <<>>
            ELSE (IF IsTag(k) /\ ~HasSlot(k) THEN <<root[k]>> ELSE <<>>)
                 \o UnnamedFrom(k + 1)
        keys == KeysFrom(1)
    IN  [keys |-> ForInOrder(keys),
         named |-> [n \in {keys[k] : k \in DOMAIN keys} |->
                       root[CHOOSE k \in DOMAIN root : IsFirst(k) /\ SlotOf(k) = n]],
         unnamed |-> UnnamedFrom(1)]

\* _replaceSlots, ssr.ts:531-550, on the tree the receivers are tags of:
\* the tree after the setChildren calls
RECURSIVE FillNamed(_, _, _, _)
FillNamed(root, receivers, slottables, k) ==
    IF k > Len(slottables.keys) THEN root
    ELSE LET slotName == slottables.keys[k]
             filled == IF slotName \in DOMAIN receivers.named
                       THEN SetChildrenAt(root, receivers.named[slotName],
                                          <<slottables.named[slotName]>>)
                       ELSE root
         IN  FillNamed(filled, receivers, slottables, k + 1)
RECURSIVE Unmatched(_, _, _)
Unmatched(receivers, slottables, k) ==
    IF k > Len(slottables.keys) THEN <<>>
    ELSE (IF slottables.keys[k] \in DOMAIN receivers.named THEN <<>>
          ELSE <<slottables.named[slottables.keys[k]]>>)
         \o Unmatched(receivers, slottables, k + 1)
ReplaceSlots(root, receivers, slottables) ==
    LET unslotted == slottables.unnamed \o Unmatched(receivers, slottables, 1)
        named == FillNamed(root, receivers, slottables, 1)
    IN  IF receivers.unnamed # <<>>
        THEN SetChildrenAt(named, receivers.unnamed, unslotted)
        ELSE named

\* _Slots.applySlots(element, lightDOM), ssr.ts:552-556: the children of
\* element afterwards
ApplySlotsTo(elementChildren, lightChildren) ==
    ReplaceSlots(elementChildren, FindSlotReceivers(elementChildren),
                 FindSlottables(lightChildren))

\* an id generator that does not store the incremented counter
GenerateUniqueIDNoIncrement(idMap, element, tagName) ==
    LET num == IF element \in DOMAIN idMap THEN idMap[element] ELSE 0
    IN  [id |-> "css-" \o tagName \o "-" \o ToString(num),
         idMap |-> [e \in DOMAIN idMap \cup {element} |->
                       IF e = element THEN num ELSE idMap[e]]]

\* _CSS._generateUniqueID, ssr.ts:730-743: {id, the counter map afterwards}
GenerateUniqueID(idMap, element, tagName) ==
    LET num == IF element \in DOMAIN idMap THEN idMap[element] ELSE 0
    IN  [id |-> "css-" \o tagName \o "-" \o ToString(num),
         idMap |-> [e \in DOMAIN idMap \cup {element} |->
                       IF e = element THEN num + 1 ELSE idMap[e]]]

\* _CSS._generateComponentID, ssr.ts:745-747
GenerateComponentID(tagName) == "css-" \o tagName

\* a classification that takes only THEME-masked sheets for global
ElementGlobalThemeOnly(mask) == mask = THEME

\* CSSTag.elementGlobal, ssr.ts:625-630
ElementGlobal(mask) == mask = THEME \/ BitAnd(mask, NEVER) # 0

\* a prefixing that writes the prefix as a class selector
AddPrefixAsClass(rules, prefix) ==
    [k \in DOMAIN rules |->
        IF "selectors" \notin DOMAIN rules[k] THEN rules[k]
        ELSE [rules[k] EXCEPT !.selectors =
                 [s \in DOMAIN @ |-> "." \o prefix \o "-" \o @[s]]]]

\* CSSText.addPrefix, ssr.ts:680-695: the rules of the stylesheet that have
\* selectors get theirs prefixed; every other rule is returned as it is
AddPrefix(rules, prefix) ==
    [k \in DOMAIN rules |->
        IF "selectors" \notin DOMAIN rules[k] THEN rules[k]
        ELSE [rules[k] EXCEPT !.selectors =
                 [s \in DOMAIN @ |-> prefix \o "-" \o @[s]]]]

\* sep between the strings of a sequence
RECURSIVE Join(_, _)
Join(strings, sep) ==
    IF strings = <<>> THEN ""
    ELSE IF Len(strings) = 1 THEN strings[1]
    ELSE strings[1] \o sep \o Join(Tail(strings), sep)

\* CSSText.stringify, ssr.ts:697-699: stringifyCSS of the css library
RECURSIVE StringifyRules(_, _)
StringifyRules(rules, indent) ==
    Join([k \in DOMAIN rules |->
            IF rules[k].type = "rule"
            THEN indent \o Join(rules[k].selectors, ",\n" \o indent) \o " {\n"
                    \o indent \o "  " \o rules[k].declarations \o ";\n"
                    \o indent \o "}"
            ELSE indent \o "@media " \o rules[k].media \o " {\n"
                    \o StringifyRules(rules[k].rules, indent \o "  ") \o "\n"
                    \o indent \o "}"],
         "\n\n")
StringifyCSS(rules) == StringifyRules(rules, "")

\* the identities of a definition's templates, the keys of the memoizer
HtmlThis(element) == element \o ".html"
CssThis(element, i) == element \o ".css" \o ToString(i)

\* _CSS._parseElementCSS, ssr.ts:702-728, from css template i on: the style
\* tag of each template with the rules of its text, owner naming the
\* template the text is of, and changeOn the mask of the template rendered.
\* The first render function that throws ends it.
RECURSIVE ParseElementCSS(_, _, _, _, _, _)
ParseElementCSS(element, instance, i, attribs, theme, ctx) ==
    IF i > Len(Css(element)) THEN [sheets |-> <<>>, ctx |-> ctx]
    ELSE LET r == TryRender(instance, element, CssThis(element, i),
                            Css(element)[i],
                            RenderCss(element, i, attribs, theme), ctx)
         IN  IF r.ctx.error # NoError THEN [sheets |-> <<>>, ctx |-> r.ctx]
             ELSE LET parsed == ParseCSS(r.text)
                      rest == ParseElementCSS(element, instance, i + 1,
                                              attribs, theme, r.ctx)
                  IN  [sheets |-> <<[owner |-> parsed.owner,
                                     rules |-> parsed.rules,
                                     parses |-> parsed.parses,
                                     content |-> r.text,
                                     changeOn |-> Css(element)[i]]>>
                                  \o rest.sheets,
                       ctx |-> rest.ctx]

\* _addCSSPrefixes, ssr.ts:763-781, of one parsed sheet: its style tag with
\* the CSSText child holding the prefixed stylesheet and its text
Sheet(sheet, uniqueID, componentID) ==
    LET prefix == IF ElementGlobal(sheet.changeOn) THEN componentID ELSE uniqueID
        prefixed == AddPrefix(sheet.rules, prefix)
    IN  [type |-> "TAG", tagName |-> "style", attributes |-> NoAttributes,
         isSelfClosing |-> FALSE,
         children |-> <<[type |-> "TEXT", content |-> StringifyCSS(prefixed),
                         stylesheet |-> prefixed]>>,
         changeOn |-> sheet.changeOn, owner |-> sheet.owner]

\* the style tags of the sheets from position k on that are global
\* (wantGlobal) or unique, in order (the filters of ssr.ts:856 and 860)
RECURSIVE Sheets(_, _, _, _, _)
Sheets(sheets, k, wantGlobal, uniqueID, componentID) ==
    IF k > Len(sheets) THEN <<>>
    ELSE (IF ElementGlobal(sheets[k].changeOn) = wantGlobal
          THEN <<Sheet(sheets[k], uniqueID, componentID)>> ELSE <<>>)
         \o Sheets(sheets, k + 1, wantGlobal, uniqueID, componentID)

\* ssr.ts:792-800: the class list with both ids appended; a class
\* attribute that is not a string counts as no class
WithPrefixClasses(attributes, uniqueID, componentID) ==
    LET classNames == IF "class" \in DOMAIN attributes
                         /\ attributes["class"].typeof = "string"
                      THEN attributes["class"].words ELSE <<>>
    IN  [a \in DOMAIN attributes \cup {"class"} |->
            IF a = "class" THEN Str(classNames \o <<uniqueID, componentID>>)
            ELSE attributes[a]]

\* _CSS._addHTMLPrefixes, ssr.ts:783-808, through Tag.walk, ssr.ts:321-343
RECURSIVE AddHTMLPrefix(_, _, _)
AddHTMLPrefix(tag, uniqueID, componentID) ==
    IF tag.type = "TEXT" THEN tag
    ELSE LET marked == [tag EXCEPT !.attributes =
                           WithPrefixClasses(tag.attributes, uniqueID, componentID)]
         IN  IF WalkStops(TRUE, HasDash(tag.tagName)) THEN marked
             ELSE [marked EXCEPT !.children =
                      [k \in DOMAIN tag.children |->
                          AddHTMLPrefix(tag.children[k], uniqueID, componentID)]]

\* a test that takes every render for the first
IsFirstElementRenderAlways(sheetSet, element) == TRUE

\* ssr.ts:848-850
IsFirstElementRender(sheetSet, element) == element \notin sheetSet

\* _CSS.getCSSApplied, ssr.ts:822-864.  ctx holds the session, the log of
\* the session's expansions, the memoizer's cache, the number of instances
\* and the error thrown.  A failing css render leaves the counter of
\* ssr.ts:740 incremented and the sheet set of ssr.ts:851 as it was.
\* ssr.ts:837-863, gen being what _generateUniqueID returned and parsed
\* what _parseElementCSS returned
PrefixedChildren(element, tagName, children, sheetSet, gen, parsed) ==
    LET uniqueID == gen.id
        componentID == GenerateComponentID(tagName)
        first == IsFirstElementRender(sheetSet, element)
        entry == [element |-> element, tagName |-> tagName,
                  uniqueID |-> uniqueID, first |-> first, done |-> TRUE]
        unparsed == {k \in DOMAIN parsed.sheets : ~parsed.sheets[k].parses}
        content == parsed.sheets[CHOOSE k \in unparsed :
                                    \A j \in unparsed : k <= j].content
    IN  IF parsed.ctx.error # NoError
        THEN [children |-> <<>>,
              ctx |-> [parsed.ctx EXCEPT !.log =
                          Append(@, [entry EXCEPT !.first = FALSE,
                                                  !.done = FALSE])]]
        ELSE IF unparsed # {}
        THEN \* ssr.ts:775, the first sheet whose text parseCSS rejects
             [children |-> <<>>,
              ctx |-> [parsed.ctx EXCEPT
                          !.error = CSSParseError(ParserError(content), content),
                          !.log = Append(@, [entry EXCEPT !.first = FALSE,
                                                          !.done = FALSE])]]
        ELSE [children |->
                 (IF first
                  THEN Sheets(parsed.sheets, 1, TRUE, uniqueID, componentID)
                  ELSE <<>>)
                 \o Sheets(parsed.sheets, 1, FALSE, uniqueID, componentID)
                 \o [k \in DOMAIN children |->
                        AddHTMLPrefix(children[k], uniqueID, componentID)],
              ctx |-> [parsed.ctx EXCEPT !.session._sheetSet = @ \cup {element},
                                         !.log = Append(@, entry)]]
\* ssr.ts:836, gen being what _generateUniqueID returned
ParsedWith(element, instance, tagName, children, attribs, theme, ctx, gen) ==
    PrefixedChildren(element, tagName, children, ctx.session._sheetSet, gen,
        ParseElementCSS(element, instance, 1, attribs, theme,
            [ctx EXCEPT !.session._cssIdentifierMap = gen.idMap]))
GetCSSApplied(element, instance, tagName, children, attribs, theme, ctx) ==
    ParsedWith(element, instance, tagName, children, attribs, theme, ctx,
        GenerateUniqueID(ctx.session._cssIdentifierMap, element, tagName))
\* elementToTag, ssr.ts:881-921, with _Replacement.replace and _mapTag,
\* ssr.ts:559-598.  Each returns {tag(s), ctx}; once ctx.error is set the
\* call has thrown and its tag is of no use.  The tag of an expanded
\* element carries the index of its expansion in the log.
RECURSIVE ElementToTag(_, _, _, _)
RECURSIVE ReplaceTag(_, _, _)
RECURSIVE ReplaceTags(_, _, _, _)

\* ssr.ts:886-887: element.is, or the next name of an unnamed element
TagNameOf(element, documentSession) ==
    IF Is(element) # NULL THEN Is(element)
    ELSE "wclib-element" \o ToString(documentSession._unnamedElements)

\* ssr.ts:912-920: the tag elementToTag returns, css being what
\* getCSSApplied returned
NewElementTag(element, attribs, tagName, css) ==
    IF css.ctx.error # NoError THEN [tag |-> NoDom, ctx |-> css.ctx]
    ELSE LET split == SplitAttributes(element, attribs)
         IN  [tag |-> [type |-> "TAG", tagName |-> tagName,
                       attributes |->
                          MergeMaps(MergeMaps(split.attributes, split.publicProps),
                                    InstanceAttributes(element, attribs)),
                       isSelfClosing |-> FALSE, children |-> css.children,
                       expansion |-> Len(css.ctx.log)],
              ctx |-> css.ctx]

\* ssr.ts:904-911, replaced being what _Replacement.replace returned
ApplyCSS(element, attribs, theme, tagName, instance, replaced) ==
    IF replaced.ctx.error # NoError THEN [tag |-> NoDom, ctx |-> replaced.ctx]
    ELSE NewElementTag(element, attribs, tagName,
                       GetCSSApplied(element, instance, tagName, replaced.tags,
                                     attribs, theme, replaced.ctx))

\* ssr.ts:898-903, rendered being what _tryRender returned
ParseAndReplace(element, attribs, theme, tagName, instance, rendered) ==
    IF rendered.ctx.error # NoError THEN [tag |-> NoDom, ctx |-> rendered.ctx]
    ELSE ApplyCSS(element, attribs, theme, tagName, instance,
                  ReplaceTags(Parse(rendered.text), 1, theme, rendered.ctx))

\* ssr.ts:888-897, ctx1 being the state once the instance is created
RenderHtmlOf(element, attribs, theme, tagName, ctx1) ==
    ParseAndReplace(element, attribs, theme, tagName, ctx1.nInstances,
        IF HasHtml(element)
        THEN TryRender(ctx1.nInstances, element, HtmlThis(element),
                       HtmlChangeOn(element),
                       RenderHtml(element, attribs, theme), ctx1)
        ELSE [text |-> "", ctx |-> ctx1])

ElementToTag(element, attribs, theme, ctx) ==
    RenderHtmlOf(element, attribs, theme, TagNameOf(element, ctx.session),
        [ctx EXCEPT !.nInstances = @ + 1,
                    !.session._unnamedElements =
                        IF Is(element) # NULL THEN @ ELSE @ + 1])

\* ssr.ts:581-585: the expansion with the content of the replaced tag put
\* into its slots
Slotted(new, lightChildren) ==
    IF new.ctx.error # NoError THEN new
    ELSE [tag |-> [new.tag EXCEPT !.children = ApplySlotsTo(@, lightChildren)],
          ctx |-> new.ctx]

\* the tags of a walk's result put after one tag
TagThen(tag, rest) == [tags |-> <<tag>> \o rest.tags, ctx |-> rest.ctx]
\* the tag with the walked children
WithChildren(tag, sub) ==
    [tag |-> [tag EXCEPT !.children = sub.tags], ctx |-> sub.ctx]

ReplaceTag(tag, theme, ctx) ==
    IF tag.type = "TEXT" THEN [tag |-> tag, ctx |-> ctx]
    ELSE IF HasDash(tag.tagName) /\ tag.tagName \in DOMAIN ctx.session._elementMap
    THEN Slotted(ElementToTag(ctx.session._elementMap[tag.tagName],
                              tag.attributes, theme, ctx),
                 tag.children)
    ELSE IF WalkStops(FALSE, FALSE) THEN [tag |-> tag, ctx |-> ctx]
    ELSE WithChildren(tag, ReplaceTags(tag.children, 1, theme, ctx))

\* the tags from position i on, one being what the walk of tags[i] returned
ReplaceRest(tags, i, theme, one) ==
    TagThen(one.tag, ReplaceTags(tags, i + 1, theme, one.ctx))
ReplaceTags(tags, i, theme, ctx) ==
    IF i > Len(tags) \/ ctx.error # NoError THEN [tags |-> <<>>, ctx |-> ctx]
    ELSE ReplaceRest(tags, i, theme, ReplaceTag(tags[i], theme, ctx))

(***************************************************************************)
(* The parts of the state a specification leaves alone                     *)
(***************************************************************************)
\* no renderAsText call was given a result
NoResult == [type |-> "none"]
NoText == [threw |-> FALSE, text |-> UNDEFINED]
TextIdle == textResult = NoResult /\ asText = NoText

\* no render function is running or was run
NoDecision == [key |-> <<>>]
NoJsxCall == [by |-> UNDEFINED]
NoProduct == [changed |-> FALSE, rendered |-> UNDEFINED]
NoIfNew == [template |-> UNDEFINED]
NestedIdle ==
    /\ templateFns = <<>>
    /\ jsx = <<>>
    /\ frames = <<>>
    /\ decided = NoDecision
    /\ jsxCall = NoJsxCall
    /\ produced = <<>>
    /\ ifNew = NoIfNew
    /\ nRenderCalls = 0

\* listenedToElements has no entry for the base
NotListenedTo ==
    [has |-> FALSE, elements |-> <<>>, identifiers |-> <<>>,
     selfUnique |-> <<>>, self |-> <<>>]
ListenersIdle ==
    /\ attached = {}
    /\ listenedToElements = NotListenedTo
    /\ registrations = <<>>
    /\ dollar = <<>>
    /\ usedElements = {}

\* no language was asked for
I18NIdle ==
    /\ langFiles = {}
    /\ langPromises = <<>>
    /\ loadingLang = NULL
    /\ currentLang = NULL
    /\ defaultLang = NULL
    /\ elementLang = NULL
    /\ waiters = <<>>
    /\ microtasks = <<>>
    /\ loads = <<>>
    /\ nLangChanges = 0

RestIdle == TextIdle /\ NestedIdle /\ ListenersIdle /\ I18NIdle

\* _Attributes._toString, ssr.ts:178-188, of an attribute value
AttributeToString(value) ==
    IF value.typeof = "string" THEN Join(value.words, " ") ELSE UNDEFINED

\* the attribute names of the fixtures.  An object's keys are visited in
\* insertion order, which the markup and the definition fix; the model
\* lists the attributes of a tag in this order.
AttributeNames ==
    <<"class", "id", "name", "slot", "x", "p", "fail", "failcss">>

\* _Attributes.stringify, ssr.ts:190-205
Stringify(attributes) ==
    LET Part(name) == name \o "=\"" \o AttributeToString(attributes[name]) \o "\""
        RECURSIVE PartsFrom(_)
        PartsFrom(k) ==
            IF k > Len(AttributeNames) THEN <<>>
            ELSE (IF AttributeNames[k] \in DOMAIN attributes
                  THEN <<Part(AttributeNames[k])>> ELSE <<>>)
                 \o PartsFrom(k + 1)
    IN  IF DOMAIN attributes = {} THEN "" ELSE " " \o Join(PartsFrom(1), " ")

\* Tag.toText and TextTag.toText, ssr.ts:345-356 and 372-374
RECURSIVE ToText(_)
ToText(tag) ==
    IF tag.type = "TEXT" THEN tag.content
    ELSE IF tag.isSelfClosing /\ tag.children = <<>>
    THEN "<" \o tag.tagName \o Stringify(tag.attributes) \o "/>"
    ELSE "<" \o tag.tagName \o Stringify(tag.attributes) \o ">"
            \o Join([k \in DOMAIN tag.children |-> ToText(tag.children[k])], "")
            \o "</" \o tag.tagName \o ">"

\* the calls of renderElement(element, props, attributes, theme, session)
\* the behaviours make: own says that no session is passed, so that the
\* call makes its own (ssr.ts:948)
Request(element, props, attributes, theme, own) ==
    [element |-> element, props |-> props, attributes |-> attributes,
     theme |-> theme, own |-> own]
Plain(element) == Request(element, NoAttributes, NoAttributes, "light", FALSE)
PropElAttributes ==
    [id |-> Str(<<"a">>), class |-> Str(<<"c">>), x |-> Str(<<"1">>),
     p |-> Str(<<"secret">>)]
Requests ==
    {Plain(element) : element \in
        {"TestElement", "ParentElement", "RootElement", "CycA",
         "Anon", "Wrapper", "SlotUser", "MyEl", "PropEl", "Thrower", "Outer"}}
    \cup {Request("PropEl", [x |-> Str(<<"2">>)], PropElAttributes, "light", own) :
             own \in BOOLEAN}
    \cup {Request("MyEl", NoAttributes, NoAttributes, "dark", own) :
             own \in BOOLEAN}
    \cup {Request("Thrower", NoAttributes, [fail |-> Str(<<"1">>)], "light", FALSE),
          Request("Thrower", NoAttributes, [failcss |-> Str(<<"1">>)], "light", FALSE),
          Request("Thrower", NoAttributes, [badcss |-> Str(<<"1">>)], "light", FALSE),
          Request("PropEl", NoAttributes, [x |-> Str(<<"2">>)], "light", TRUE),
          Request("TestElement", NoAttributes, NoAttributes, "light", TRUE)}

\* _Rendering.render, ssr.ts:924-937, from a session whose map is merged,
\* with the memoizer's cache and the number of instances as given
Render(req, merged, sessionLog, cache, instances) ==
    ElementToTag(req.element, MergeMaps(req.props, req.attributes), req.theme,
                 [session |-> merged, log |-> sessionLog, cache |-> cache,
                  nInstances |-> instances, error |-> NoError])

\* what a renderElement call returned or threw
Output(req, error, mapBefore, dom) ==
    [element |-> req.element, props |-> req.props,
     attributes |-> req.attributes, theme |-> req.theme, own |-> req.own,
     status |-> IF error = NoError THEN "ok" ELSE error.name,
     error |-> error, mapBefore |-> mapBefore, dom |-> dom,
     text |-> IF error = NoError THEN ToText(dom) ELSE UNDEFINED]

\* renderElement, ssr.ts:940-960, on the shared session or on a session of
\* its own.  A RangeError of buildMap leaves the session as it was; an
\* error thrown later leaves it as the render had changed it by then.
\* the state after a render that got past buildMap
Returned(req, before, done) ==
    /\ outputs' = Append(outputs,
           Output(req, done.ctx.error, before._elementMap, done.tag))
    /\ templaterMap' = done.ctx.cache
    /\ nInstances' = done.ctx.nInstances
    /\ IF req.own THEN UNCHANGED <<session, log>>
       ELSE /\ session' = done.ctx.session
            /\ log' = done.ctx.log
\* renderElement with a session map that is replaced by the graph of the
\* rendered definition instead of being extended by it
RenderWithGraphOnly(req, before, deps) ==
    IF deps.overflow
    THEN /\ outputs' = Append(outputs,
                Output(req, RangeError, before._elementMap, NoDom))
         /\ UNCHANGED <<session, log, templaterMap, nInstances>>
    ELSE Returned(req, before,
            Render(req, [before EXCEPT !._elementMap = deps.map],
                   IF req.own THEN <<>> ELSE log, templaterMap, nInstances))
\* ssr.ts:950-959, deps being what buildMap returned
RenderWith(req, before, deps) ==
    IF deps.overflow
    THEN /\ outputs' = Append(outputs,
                Output(req, RangeError, before._elementMap, NoDom))
         /\ UNCHANGED <<session, log, templaterMap, nInstances>>
    ELSE Returned(req, before,
            Render(req, [before EXCEPT !._elementMap = MergeMaps(@, deps.map)],
                   IF req.own THEN <<>> ELSE log, templaterMap, nInstances))
RenderElement ==
    \E req \in Requests :
        /\ nRenders < MaxRenders
        /\ nRenders' = nRenders + 1
        /\ RenderWith(req, IF req.own THEN NewSession ELSE session,
                      buildMap(req.element))
        /\ UNCHANGED <<built, slotted>>
        /\ UNCHANGED <<changeOn, template, lastRenderChanged, call, nCalls>>
        /\ UNCHANGED restVars

\* the definitions buildMap is called with directly
BuildDefs == {"RootElement", "CycA", "SelfDep"}

\* a direct call of the exported Dependencies.buildMap(element)
BuildMap ==
    \E element \in BuildDefs :
        LET deps == buildMap(element)
        IN  /\ built = NoBuilt
            /\ built' = [element |-> element,
                         status |-> IF deps.overflow THEN "RangeError" ELSE "ok",
                         map |-> IF deps.overflow THEN <<>> ELSE deps.map]
            /\ UNCHANGED <<session, log, outputs, nRenders, nInstances, slotted>>
            /\ UNCHANGED <<memoVars, restVars>>

\* the number of top-level nodes of the content given to applySlots
MaxContent == 3

\* the component markups and the content nodes a direct call of the
\* exported _Slots.applySlots(element, lightDOM) is given
SlotElements ==
    {HtmlTags("SlotHost", ""), HtmlTags("SlotTop", ""), HtmlTags("SlotNamed", "")}
LightNodes ==
    {TagNode("span", [slot |-> Str(<<"a">>)], <<TextNode("X")>>),
     TagNode("b", [slot |-> Str(<<"a">>)], <<TextNode("X2")>>),
     TagNode("b", NoAttributes, <<TextNode("Y")>>),
     TagNode("i", [slot |-> Str(<<"z">>)], <<TextNode("Z")>>),
     TagNode("i", [slot |-> Str(<<"2">>)], <<TextNode("two")>>),
     TagNode("i", [slot |-> Str(<<"1">>)], <<TextNode("one")>>),
     TextNode("text")}
LightContents == UNION {[1..n -> LightNodes] : n \in 0..MaxContent}

NoSlotted == [element |-> <<>>, light |-> <<>>, applied |-> FALSE, result |-> <<>>]

\* _Slots.applySlots(element, lightDOM), ssr.ts:552-556, called directly
ApplySlots ==
    /\ ~slotted.applied
    /\ slotted' = [slotted EXCEPT !.applied = TRUE,
                      !.result = ApplySlotsTo(slotted.element, slotted.light)]
    /\ UNCHANGED <<session, log, outputs, built, nRenders, nInstances>>
    /\ UNCHANGED <<memoVars, restVars>>

\* new TemplateFn(_template, changeOn, renderer), template-fn.ts:279-286
MemoInit ==
    /\ changeOn \in Masks
    /\ template \in {"null", "fn"}
    /\ templaterMap = <<>>
    /\ lastRenderChanged = TRUE
    /\ call = NoCall
    /\ nCalls = 0

MemoNext == RenderAsText \/ RenderTemplate \/ RenderSame

SSRInit ==
    /\ session = NewSession
    /\ log = <<>>
    /\ outputs = <<>>
    /\ built = NoBuilt
    /\ nRenders = 0
    /\ nInstances = 0

SSRNext == RenderElement \/ BuildMap

\* the memoizer: one template, rendered for two components
Init == MemoInit /\ SSRInit /\ slotted = NoSlotted /\ RestIdle

Next == MemoNext

Spec == Init /\ [][Next]_vars

\* a process in which no template was rendered yet
FreshProcess ==
    /\ changeOn = NEVER
    /\ template = "fn"
    /\ templaterMap = <<>>
    /\ lastRenderChanged = TRUE
    /\ call = NoCall
    /\ nCalls = 0

\* the server-side renderer: renders on one shared session and on sessions
\* of their own, and buildMap calls; the templates of the definitions go
\* through the memoizer's cache
InitSSR == SSRInit /\ FreshProcess /\ slotted = NoSlotted /\ RestIdle

SpecSSR == InitSSR /\ [][SSRNext]_vars

\* slot resolution: applySlots on a component's markup and a content
InitSlots ==
    /\ SSRInit
    /\ FreshProcess
    /\ RestIdle
    /\ slotted \in {[NoSlotted EXCEPT !.element = e, !.light = c] :
                       e \in SlotElements, c \in LightContents}

SpecSlots == InitSlots /\ [][ApplySlots]_vars


(***************************************************************************)
(* The conversion of render results to text, template-fn.ts:358-401        *)
(***************************************************************************)
\* the number of values of a structured result
MaxValues == 2

\* sequences over S of the lengths lo..hi
SeqsOf(S, lo, hi) == UNION {[1..n -> S] : n \in lo..hi}

\* JS values a render function returns
StringValue(s) == [type |-> "string", value |-> s]
NumberValue(n) == [type |-> "number", number |-> n]
NullValue == [type |-> "null"]
UndefinedValue == [type |-> "undefined"]
ElementValue(innerHTML) == [type |-> "element", innerHTML |-> innerHTML]

\* a property an object does not have
Absent == [type |-> "absent"]
\* an array of the items
Array(items) == [type |-> "array", items |-> items]
\* a function that returns the text t
Function(t) == [type |-> "function", returns |-> t]
ObjectValue(toText, strings, values) ==
    [type |-> "object", toText |-> toText, strings |-> strings,
     values |-> values]

\* values interpolated into a template
Interpolated == {StringValue("x"), StringValue("y"), NullValue, NumberValue(1)}
\* static segments of a template
Segments == {"a", "b"}

\* the render results renderAsText is given
TextResults ==
    {NullValue, UndefinedValue, NumberValue(1), StringValue(""),
     StringValue("a"), ElementValue("<b>a</b>")}
    \cup {ObjectValue(t, s, v) :
            t \in {Absent, Function("own"), StringValue("no function")},
            s \in {Absent} \cup {Array(a) : a \in SeqsOf(Segments, 1, MaxValues + 1)},
            v \in {Absent} \cup {Array(a) : a \in SeqsOf(Interpolated, 0, MaxValues)}}

\* array[i] of a JS array held as a sequence (i counts from 0)
At(array, i) == IF i + 1 \in DOMAIN array THEN array[i + 1] ELSE UndefinedValue

\* what Array.prototype.join makes of one element: null and undefined give
\* the empty string
Digits == <<"0", "1", "2", "3", "4", "5", "6", "7", "8", "9">>
ElementText(v) ==
    IF v.type = "string" THEN v.value
    ELSE IF v.type = "number" THEN Digits[v.number + 1]
    ELSE IF v.type \in {"null", "undefined"} THEN ""
    ELSE "[object Object]"

\* array.join('')
RECURSIVE JoinAll(_)
JoinAll(array) ==
    IF array = <<>> THEN "" ELSE ElementText(Head(array)) \o JoinAll(Tail(array))

\* the array _textRenderer has built after i rounds of its loop
RECURSIVE Pushed(_, _, _)
Pushed(strings, values, i) ==
    IF i = 0 THEN <<At(strings, 0)>>
    ELSE Pushed(strings, values, i - 1) \o <<At(values, i - 1), At(strings, i)>>

\* a _textRenderer that puts every segment before every value
TextRendererOfSegmentsFirst(strings, values) ==
    JoinAll(strings) \o JoinAll(values)

\* TemplateFn._textRenderer, template-fn.ts:358-364; strings are given as
\* string values
TextRendererOf(strings, values) == JoinAll(Pushed(strings, values, Len(values)))

Returns(t) == [threw |-> FALSE, text |-> t]
Throws(name) == [threw |-> TRUE, name |-> name]

\* strings of a template as values
AsValues(strings) == [i \in DOMAIN strings |-> StringValue(strings[i])]

\* TemplateFn._templateResultToText, template-fn.ts:366-381, on values of
\* every shape.  `in` throws a TypeError on a value that is no object.
ResultToText(result) ==
    IF result.type \in {"null", "undefined"} THEN Returns("")
    ELSE IF result.type = "element" THEN Returns(result.innerHTML)
    ELSE IF result.type # "object" THEN Throws("TypeError")
    ELSE IF result.toText.type = "function" THEN Returns(result.toText.returns)
    ELSE IF result.strings # Absent /\ result.values # Absent
    THEN Returns(TextRendererOf(AsValues(result.strings.items), result.values.items))
    ELSE Throws("Error")

\* TemplateFn.renderAsText, template-fn.ts:396-400, from the result of
\* _renderWithTemplater on
AsText(result) ==
    IF result.type # "string" THEN ResultToText(result)
    ELSE Returns(result.value)

\* renderAsText of a template whose render function returned `rendered`
RenderResultAsText ==
    /\ textResult # NoResult
    /\ asText = NoText
    /\ asText' = AsText(textResult)
    /\ UNCHANGED <<textResult, memoVars, ssrVars, nestedVars, listenerVars, i18nVars>>

InitText ==
    /\ MemoInit /\ changeOn = ALWAYS /\ template = "fn"
    /\ SSRInit /\ slotted = NoSlotted
    /\ textResult \in TextResults
    /\ asText = NoText
    /\ NestedIdle /\ ListenersIdle /\ I18NIdle

SpecText == InitText /\ [][RenderResultAsText]_vars

(***************************************************************************)
(* Render calls of several templates for several components, and render    *)
(* functions that make render calls before they return,                    *)
(* template-fn.ts:288-356 and 391-480                                      *)
(***************************************************************************)
\* the number of render calls of a behaviour
MaxRenderCalls == 3
\* the number of render functions running inside one another
MaxNesting == 2

\* TemplateFn objects, each with a render function
Templates == {"T", "U"}
NestedMasks == {PROP, NEVER}
NestedReasons == {PROP, THEME}
RenderMethods == {"renderAsText", "renderTemplate"}

\* the objects that are given the jsx property (template-fn.ts:304): the
\* templaters, and the components that stand in for one
TemplaterObjects == {TextRenderer, HtmlTemplater} \cup Components

\* the templater a render method passes to _renderWithTemplater
\* (template-fn.ts:392-393 and 414-416)
TemplaterOf(method, component) ==
    IF method = "renderAsText" THEN TextRenderer
    ELSE GenerateHTMLTemplate(component)

\* the value the render function returns in the n-th render call
Result(n) == <<"r1", "r2", "r3", "r4", "r5", "r6">>[n]

\* this._lastRenderChanged = changed, template-fn.ts:395, 417 and 439
SetLastRenderChanged(fns, this, changed) ==
    [fns EXCEPT ![this].lastRenderChanged = changed]

\* template-fn.ts:316-355: whether the call returns what is cached
ReturnsCached(mask, changeType, map, key) ==
    IF BitAnd(mask, NEVER) # 0 THEN NeverCacheHit(MapGet(map, key))
    ELSE ~ShouldRerender(mask, changeType, key \in DOMAIN map)

\* jsxAddedTemplate.jsx = (...) => jsxInterpreter(component, ...),
\* template-fn.ts:304-309: the property of the templater object is
\* overwritten
BindJsx(bound, templater, component) == [bound EXCEPT ![templater] = component]

\* a render method is called: _renderWithTemplater up to the call of the
\* render function (template-fn.ts:288-328 and 336-342), and all of it and
\* the rest of the render method when the cache is used
BeginRender ==
    \E this \in Templates, method \in RenderMethods,
       changeType \in NestedReasons, component \in Components :
        LET supplied == TemplaterOf(method, component)
            templater == EffectiveTemplater(supplied, component)
            key == <<templater, component, this>>
            cached == ReturnsCached(templateFns[this].changeOn, changeType,
                                    templaterMap, key)
        IN  /\ nRenderCalls < MaxRenderCalls
            /\ Len(frames) < MaxNesting
            /\ nRenderCalls' = nRenderCalls + 1
            /\ jsx' = BindJsx(jsx, templater, component)
            /\ IF cached
               THEN /\ templateFns' = SetLastRenderChanged(templateFns, this, FALSE)
                    /\ UNCHANGED frames
               ELSE /\ frames' = Append(frames,
                                    [this |-> this, component |-> component,
                                     templater |-> templater, key |-> key,
                                     value |-> Result(nRenderCalls + 1)])
                    /\ UNCHANGED templateFns
            /\ UNCHANGED <<templaterMap, jsxCall, decided, produced, ifNew>>
            /\ UNCHANGED <<changeOn, template, lastRenderChanged, call, nCalls>>
            /\ UNCHANGED <<ssrVars, textVars, listenerVars, i18nVars>>

\* the innermost running render function calls html.jsx(...)
\* (unnamed/part_002:5): jsxInterpreter gets the component the property is
\* bound to at that time
CallJsx ==
    /\ frames # <<>>
    /\ LET top == frames[Len(frames)]
       IN  jsxCall' = [by |-> top.component, boundTo |-> jsx[top.templater]]
    /\ UNCHANGED <<templateFns, jsx, frames, decided, produced, ifNew, nRenderCalls>>
    /\ UNCHANGED <<memoVars, ssrVars, textVars, listenerVars, i18nVars>>

\* the innermost running render function returns or throws: the rest of
\* _renderWithTemplater (template-fn.ts:330-334 and 344-348) and of the
\* render method
EndRender ==
    \E threw \in BOOLEAN :
        /\ frames # <<>>
        /\ LET top == frames[Len(frames)]
           IN  /\ frames' = SubSeq(frames, 1, Len(frames) - 1)
               /\ IF threw
                  THEN UNCHANGED <<templaterMap, templateFns>>
                  ELSE /\ templaterMap' = MapSet(templaterMap, top.key, top.value)
                       /\ templateFns' = SetLastRenderChanged(templateFns, top.this, TRUE)
        /\ UNCHANGED <<jsx, decided, jsxCall, produced, ifNew, nRenderCalls>>
        /\ UNCHANGED <<changeOn, template, lastRenderChanged, call, nCalls>>
        /\ UNCHANGED <<ssrVars, textVars, listenerVars, i18nVars>>

NestedNext == BeginRender \/ CallJsx \/ EndRender

\* render functions that make render calls: two templates, rendered for two
\* components
InitNested ==
    /\ MemoInit /\ changeOn = ALWAYS /\ template = "fn"
    /\ SSRInit /\ slotted = NoSlotted
    /\ TextIdle /\ ListenersIdle /\ I18NIdle
    /\ templateFns \in [Templates -> [changeOn : NestedMasks,
                                      lastRenderChanged : {TRUE}]]
    /\ jsx = [o \in TemplaterObjects |-> UNDEFINED]
    /\ frames = <<>>
    /\ decided = NoDecision
    /\ jsxCall = NoJsxCall
    /\ produced = <<>>
    /\ ifNew = NoIfNew
    /\ nRenderCalls = 0

SpecNested == InitNested /\ [][NestedNext]_vars

(***************************************************************************)
(* Render calls of several templates for several components through        *)
(* several templaters, and renderIfNew, template-fn.ts:288-356 and 391-480 *)
(***************************************************************************)
\* produced after a render method returned
Produce(method, this, component, res) ==
    IF method = "renderTemplate" /\ ~res.threw
    THEN [produced EXCEPT ![<<this, component>>] =
              [changed |-> res.changed, rendered |-> res.rendered]]
    ELSE produced

\* a call of renderAsText or renderTemplate of one of the templates, whose
\* render function makes no render calls (template-fn.ts:391-419)
RenderCall ==
    \E this \in Templates, method \in RenderMethods,
       changeType \in NestedReasons, component \in Components,
       threw \in BOOLEAN :
        LET supplied == TemplaterOf(method, component)
            res == RenderWithTemplater(this, templaterMap,
                       templateFns[this].changeOn, "fn", changeType, component,
                       supplied,
                       IF threw THEN THROWS ELSE Result(nRenderCalls + 1))
        IN  /\ nRenderCalls < MaxRenderCalls
            /\ nRenderCalls' = nRenderCalls + 1
            /\ templaterMap' = res.map
            /\ templateFns' = IF res.threw THEN templateFns
                              ELSE SetLastRenderChanged(templateFns, this, res.changed)
            /\ decided' = [key |-> <<EffectiveTemplater(supplied, component),
                                     component, this>>,
                           supplied |-> supplied, changeType |-> changeType,
                           invoked |-> res.invoked,
                           threw |-> res.threw, changed |-> res.changed,
                           rendered |-> res.rendered]
            /\ produced' = Produce(method, this, component, res)
            /\ UNCHANGED <<jsx, frames, jsxCall, ifNew>>
            /\ UNCHANGED <<changeOn, template, lastRenderChanged, call, nCalls>>
            /\ UNCHANGED <<ssrVars, textVars, listenerVars, i18nVars>>

\* TemplateFn.renderIfNew(template, target), template-fn.ts:477-480, with
\* what renderTemplate last returned for the component whose target it is;
\* the template has a renderer
RenderIfNew ==
    \E this \in Templates, component \in Components :
        LET product == produced[<<this, component>>]
        IN  /\ product # NoProduct
            /\ ifNew' = [template |-> product.rendered, this |-> this,
                         component |-> component,
                         reported |-> product.changed,
                         wrote |-> templateFns[this].lastRenderChanged]
            /\ UNCHANGED <<templateFns, jsx, frames, decided, jsxCall, produced,
                           nRenderCalls>>
            /\ UNCHANGED <<memoVars, ssrVars, textVars, listenerVars, i18nVars>>

KeysNext == RenderCall \/ RenderIfNew

\* two templates, rendered for two components through their templaters
InitKeys ==
    /\ MemoInit /\ changeOn = ALWAYS /\ template = "fn"
    /\ SSRInit /\ slotted = NoSlotted
    /\ TextIdle /\ ListenersIdle /\ I18NIdle
    /\ templateFns \in [Templates -> [changeOn : NestedMasks,
                                      lastRenderChanged : {TRUE}]]
    /\ jsx = <<>>
    /\ frames = <<>>
    /\ decided = NoDecision
    /\ jsxCall = NoJsxCall
    /\ produced = [p \in Templates \X Components |-> NoProduct]
    /\ ifNew = NoIfNew
    /\ nRenderCalls = 0

SpecKeys == InitKeys /\ [][KeysNext]_vars

(***************************************************************************)
(* Event listeners of a component, src/lib/listeners.ts                    *)
(***************************************************************************)
\* the number of registrations of a behaviour
MaxListeners == 3

\* the component, the elements its ids stand for, and the events
Base == "base"
Elements == {"e1", "e2"}
Ids == {"button"}
Identifiers == {"x"}
Events == {"click", "input"}

\* the functions listener.bind(base) returns are numbered as they are made
BoundListener(n) == n

\* map.set(key, value) and map.delete(key) of a Map held as a function
MapPut(map, key, value) ==
    [k \in DOMAIN map \cup {key} |-> IF k = key THEN value ELSE map[k]]
MapDelete(map, key) == [k \in DOMAIN map \ {key} |-> map[k]]

\* target.addEventListener(event, listener) and
\* target.removeEventListener(event, listener) without options
AddEventListener(listeners, target, event, listener) ==
    listeners \cup {<<target, event, listener>>}
RemoveEventListener(listeners, target, event, listener) ==
    listeners \ {<<target, event, listener>>}

\* listeners.ts:57-64: the entry of the base, made when it is missing
WithEntry(listened) == [listened EXCEPT !.has = TRUE]

\* what a registration leaves behind: how it was made and what the
\* function it returned holds on to
Registration(via, type, id, event, target, removeFrom) ==
    [via |-> via, type |-> type, id |-> id, event |-> event,
     target |-> target, removeFrom |-> removeFrom,
     called |-> FALSE, cleared |-> FALSE]

\* the state after a call: listeners attached, the entry of the base, and
\* the registrations
After(a, l, r) == [attached |-> a, listened |-> l, registrations |-> r]

\* listeners.ts:80-95, from the element change check on
ListenOn(type, element, id, event, n, listenedToElement, map, a, listened, regs, via) ==
    LET changed == listenedToElement # element
        \* listeners.ts:82-86
        detached == IF changed
                    THEN a \ {<<listenedToElement, e, map[e]>> : e \in DOMAIN map}
                    ELSE a
        entry == [element |-> element, map |-> IF changed THEN <<>> ELSE map]
    IN  After(AddEventListener(detached, element, event, BoundListener(n)),
              [listened EXCEPT ![type] = MapPut(@, id, entry)],
              Append(regs, Registration(via, type, id, event, element,
                                        listenedToElement)))

\* Listeners.doListen, listeners.ts:46-104
DoListen(type, element, id, event, a, listened0, regs, via) ==
    LET n == Len(regs) + 1
        listened == WithEntry(listened0)
        usedMap == listened[type]
        \* listeners.ts:68-73
        entry == IF id \in DOMAIN usedMap THEN usedMap[id]
                 ELSE [element |-> element, map |-> <<>>]
    IN  \* listeners.ts:74-79
        IF event \notin DOMAIN entry.map
        THEN ListenOn(type, element, id, event, n, entry.element,
                      MapPut(entry.map, event, BoundListener(n)),
                      a, listened, regs, via)
        ELSE ListenOn(type, element, id, event, n, entry.element, entry.map,
                      RemoveEventListener(a, entry.element, event, entry.map[event]),
                      listened, regs, via)

\* the state change of a call of the namespace
Becomes(after) ==
    /\ attached' = after.attached
    /\ listenedToElements' = after.listened
    /\ registrations' = after.registrations
    /\ UNCHANGED <<memoVars, ssrVars, textVars, nestedVars, i18nVars>>

Now == After(attached, listenedToElements, registrations)

\* Listeners.listen(base, id, event, listener), listeners.ts:133-145
Listen ==
    \E id \in Ids, event \in Events :
        /\ Len(registrations) < MaxListeners
        /\ Becomes(DoListen("elements", dollar[id], id, event, attached,
                            listenedToElements, registrations, "listen"))
        /\ UNCHANGED <<dollar, usedElements>>

\* Listeners.listenWithIdentifier(base, element, identifier, event,
\* listener), listeners.ts:180-191
ListenWithIdentifier ==
    \E element \in Elements, identifier \in Identifiers, event \in Events :
        /\ Len(registrations) < MaxListeners
        /\ Becomes(DoListen("identifiers", element, identifier, event, attached,
                            listenedToElements, registrations,
                            "listenWithIdentifier"))
        /\ UNCHANGED <<dollar, usedElements>>

\* Listeners.listenIfNew(base, id, event, listener, isNew),
\* listeners.ts:256-285, with isNewElement (210-221) for a missing isNew
ListenIfNew ==
    \E id \in Ids, event \in Events, isNew \in {"true", "false", UNDEFINED} :
        LET element == dollar[id]
            isElementNew == IF isNew = UNDEFINED THEN element \notin usedElements
                            ELSE isNew = "true"
        IN  /\ Len(registrations) < MaxListeners
            /\ usedElements' = IF isNew = UNDEFINED
                               THEN usedElements \cup {element}
                               ELSE usedElements
            /\ Becomes(IF isElementNew
                       THEN DoListen("elements", element, id, event, attached,
                                     listenedToElements, registrations,
                                     "listenIfNew")
                       ELSE Now)
            /\ UNCHANGED dollar

\* Listeners.listenToComponentUnique(base, event, listener),
\* listeners.ts:306-333
ListenToComponentUnique ==
    \E event \in Events :
        LET n == Len(registrations) + 1
            listened == WithEntry(listenedToElements)
            selfEventMap == listened.selfUnique
            has == event \in DOMAIN selfEventMap
        IN  /\ Len(registrations) < MaxListeners
            /\ Becomes(
                 After(AddEventListener(
                          IF has
                          THEN RemoveEventListener(attached, Base, event,
                                                   selfEventMap[event])
                          ELSE attached,
                          Base, event, BoundListener(n)),
                       IF has THEN listened
                       ELSE [listened EXCEPT !.selfUnique =
                                MapPut(@, event, BoundListener(n))],
                       Append(registrations,
                              Registration("listenToComponentUnique", "selfUnique",
                                           Base, event, Base, Base))))
            /\ UNCHANGED <<dollar, usedElements>>

\* Listeners.listenToComponent(base, event, listener), listeners.ts:348-378
ListenToComponent ==
    \E event \in Events :
        LET n == Len(registrations) + 1
            listened == WithEntry(listenedToElements)
            selfEventMap == listened.self
        IN  /\ Len(registrations) < MaxListeners
            /\ Becomes(
                 After(AddEventListener(attached, Base, event, BoundListener(n)),
                       [listened EXCEPT !.self =
                           MapPut(@, event,
                                  IF event \in DOMAIN selfEventMap
                                  THEN Append(selfEventMap[event], BoundListener(n))
                                  ELSE <<BoundListener(n)>>)],
                       Append(registrations,
                              Registration("listenToComponent", "self",
                                           Base, event, Base, Base))))
            /\ UNCHANGED <<dollar, usedElements>>

\* array.indexOf(item), from 0, -1 when it is missing
ArrayIndexOf(array, item) ==
    IF \E i \in DOMAIN array : array[i] = item
    THEN (CHOOSE i \in DOMAIN array :
             array[i] = item /\ \A j \in 1..(i - 1) : array[j] # item) - 1
    ELSE -1

\* array.splice(start, 1): a negative start counts from the end
Splice1(array, start) ==
    LET at == IF start < 0 THEN Len(array) + start + 1 ELSE start + 1
    IN  IF at \in DOMAIN array
        THEN SubSeq(array, 1, at - 1) \o SubSeq(array, at + 1, Len(array))
        ELSE array

\* the function doListen returned for registration n, listeners.ts:97-103.
\* The map it holds on to is the one of the entry it was made with; once
\* removeAllElementListeners has dropped that entry, that map stays empty.
RemoveListened(n, r, a, listened) ==
    LET map == IF r.cleared \/ r.id \notin DOMAIN listened[r.type] THEN <<>>
               ELSE listened[r.type][r.id].map
    IN  IF r.event \in DOMAIN map /\ map[r.event] = BoundListener(n)
        THEN After(RemoveEventListener(a, r.removeFrom, r.event, BoundListener(n)),
                   [listened EXCEPT ![r.type][r.id].map = MapDelete(@, r.event)],
                   registrations)
        ELSE After(a, listened, registrations)

\* the function listenToComponentUnique returned, listeners.ts:326-332
RemoveUnique(n, r, a, listened) ==
    LET selfEventMap == listened.selfUnique
    IN  IF r.event \in DOMAIN selfEventMap
           /\ selfEventMap[r.event] = BoundListener(n)
        THEN After(RemoveEventListener(a, Base, r.event, selfEventMap[r.event]),
                   [listened EXCEPT !.selfUnique = MapDelete(@, r.event)],
                   registrations)
        ELSE After(a, listened, registrations)

\* the function listenToComponent returned, listeners.ts:367-378
RemoveSelf(n, r, a, listened) ==
    LET selfEventMap == listened.self
    IN  IF r.event \notin DOMAIN selfEventMap
        THEN After(a, listened, registrations)
        ELSE LET listeners == selfEventMap[r.event]
                 index == ArrayIndexOf(listeners, BoundListener(n))
             IN  After(IF index > -1
                       THEN RemoveEventListener(a, Base, r.event, BoundListener(n))
                       ELSE a,
                       [listened EXCEPT !.self =
                           MapPut(@, r.event, Splice1(listeners, index))],
                       registrations)

\* a call of the function a registration returned
CallReturned ==
    \E n \in DOMAIN registrations :
        LET r == registrations[n]
            after == IF r.type = "selfUnique"
                     THEN RemoveUnique(n, r, attached, listenedToElements)
                     ELSE IF r.type = "self"
                     THEN RemoveSelf(n, r, attached, listenedToElements)
                     ELSE RemoveListened(n, r, attached, listenedToElements)
        IN  /\ Becomes([after EXCEPT !.registrations[n].called = TRUE])
            /\ UNCHANGED <<dollar, usedElements>>

\* Listeners.removeListeners(element, map), listeners.ts:380-387, for a map
\* of listeners: the listeners left on the targets
RemoveListeners(a, element, map) ==
    a \ {<<element, e, map[e]>> : e \in DOMAIN map}

\* the same for the map of arrays of listeners
RemoveListenerArrays(a, element, map) ==
    a \ UNION {{<<element, e, map[e][i]>> : i \in DOMAIN map[e]} : e \in DOMAIN map}

\* the listeners left after removeListeners on each entry of `entries`
RemoveEach(a, entries) ==
    a \ UNION {{<<entries[id].element, e, entries[id].map[e]>> :
                   e \in DOMAIN entries[id].map} : id \in DOMAIN entries}

\* Listeners.removeAllElementListeners(base), listeners.ts:395-410
RemoveAllElementListeners ==
    /\ IF ~listenedToElements.has
       THEN Becomes(Now)
       ELSE Becomes(
              After(RemoveListeners(
                       RemoveListenerArrays(
                          RemoveEach(RemoveEach(attached, listenedToElements.elements),
                                     listenedToElements.identifiers),
                          Base, listenedToElements.self),
                       Base, listenedToElements.selfUnique),
                    [NotListenedTo EXCEPT !.has = TRUE],
                    [n \in DOMAIN registrations |->
                        [registrations[n] EXCEPT !.cleared = TRUE]]))
    /\ UNCHANGED <<dollar, usedElements>>

\* the component is rendered anew: an id stands for another element
Rerender ==
    \E id \in Ids, element \in Elements :
        /\ dollar[id] # element
        /\ dollar' = [dollar EXCEPT ![id] = element]
        /\ UNCHANGED <<attached, listenedToElements, registrations, usedElements>>
        /\ UNCHANGED <<memoVars, ssrVars, textVars, nestedVars, i18nVars>>

ListenersNext ==
    \/ Listen
    \/ ListenWithIdentifier
    \/ ListenIfNew
    \/ ListenToComponentUnique
    \/ ListenToComponent
    \/ CallReturned
    \/ RemoveAllElementListeners
    \/ Rerender

\* a component without listeners
InitListeners ==
    /\ MemoInit /\ changeOn = ALWAYS /\ template = "fn"
    /\ SSRInit /\ slotted = NoSlotted
    /\ TextIdle /\ NestedIdle /\ I18NIdle
    /\ attached = {}
    /\ listenedToElements = NotListenedTo
    /\ registrations = <<>>
    /\ dollar = [id \in Ids |-> "e1"]
    /\ usedElements = {}

SpecListeners == InitListeners /\ [][ListenersNext]_vars

(***************************************************************************)
(* Loading of language files, I18NClass and langReady, ssr.ts:1014-1348    *)
(***************************************************************************)
\* the number of loadCurrentLang calls of a behaviour
MaxLoads == 2
\* the number of setLang and initI18N calls of a behaviour
MaxLangChanges == 3

Langs == {"en", "nl"}

\* I18NClass.lang, ssr.ts:1113-1117
LangOf(current, loading, default) ==
    IF current # NULL THEN current
    ELSE IF loading # NULL THEN loading
    ELSE default

Lang == LangOf(currentLang, loadingLang, defaultLang)

\* a continuation: of __loadLang(lang) after its await (then names the
\* caller that awaits __loadLang), of setLang(lang) after its await, of the
\* loadCurrentLang call `load` after its await in its depth-th nested call,
\* and the steps by which a promise takes over the one it was resolved with
Job(job, lang, load, n) == [job |-> job, lang |-> lang, load |-> load, n |-> n]

\* the parts of the state that promises and continuations make up
Promises(p, w, m, l) ==
    [langPromises |-> p, waiters |-> w, microtasks |-> m, loads |-> l]

\* `await promise` of the language promise of lang: the continuation runs
\* after those that awaited it before
Await(st, lang, job) ==
    IF st.langPromises[lang] = "fulfilled"
    THEN [st EXCEPT !.microtasks = Append(@, job)]
    ELSE [st EXCEPT !.waiters[lang] = Append(@, job)]

\* I18NClass.__loadLang(lang) for a language without promise,
\* ssr.ts:1103-1110, up to its await; awaited tells whether the caller awaits
StartLoad(st, lang, awaited) ==
    [st EXCEPT !.langPromises = MapPut(@, lang, "pending"),
               !.waiters = MapPut(@, lang, <<Job("__loadLang", lang, 0, awaited)>>)]

\* loadCurrentLang returns in its depth-th nested call: the promises of the
\* calls around it are resolved with the promise of the call they made, and
\* take over its state two microtasks later each
Return(st, load, depth) ==
    IF depth = 0 THEN [st EXCEPT !.loads[load].status = "fulfilled"]
    ELSE [st EXCEPT !.microtasks =
             Append(@, Job("take over", NULL, load, 2 * depth))]

\* no check for a change of language after the await
LanguageChangedUnchecked(awaited, lang) == FALSE

\* ssr.ts:1126 and 1133: this.lang !== loadingLang
LanguageChanged(awaited, lang) == lang # awaited

\* I18NClass.loadCurrentLang, ssr.ts:1119-1134, up to its await or return
LoadCurrentLangOf(st, load, depth, lang, files) ==
    IF lang \in files THEN Return(st, load, depth)
    ELSE IF lang \in DOMAIN st.langPromises
    THEN Await(st, lang, Job("loadCurrentLang", lang, load, depth))
    ELSE Await(StartLoad(st, lang, 0), lang,
               Job("loadCurrentLang", lang, load, depth))

\* the state change of a step on promises and continuations
Settle(st) ==
    /\ langPromises' = st.langPromises
    /\ waiters' = st.waiters
    /\ microtasks' = st.microtasks
    /\ loads' = st.loads
    /\ UNCHANGED <<memoVars, ssrVars, textVars, nestedVars, listenerVars>>

\* langReady or loadCurrentLang() is called (ssr.ts:1346-1348); render
\* functions call it through __prom and waitForKey, so it may be called
\* between two continuations
LoadCurrentLang ==
    /\ Len(loads) < MaxLoads
    /\ Settle(LoadCurrentLangOf(
                 Promises(langPromises, waiters, microtasks,
                          Append(loads, [status |-> "pending", nested |-> 0])),
                 Len(loads) + 1, 0, Lang, langFiles))
    /\ UNCHANGED <<langFiles, loadingLang, currentLang, defaultLang, elementLang,
                   nLangChanges>>

\* I18NClass.setLang(lang), ssr.ts:1052-1070, up to its await or, without
\* one, to its end.  notify is 2 when the caller goes on to notifyNewLang
\* (ssr.ts:1200-1203) and 1 when it does not.
SetLangOf(st, lang, notify) ==
    /\ IF loadingLang # lang
       THEN /\ loadingLang' = lang
            /\ Settle(IF lang \in DOMAIN st.langPromises
                      THEN \* __loadLang returns at once, ssr.ts:1102
                           [st EXCEPT !.microtasks =
                               Append(@, Job("setLang", lang, 0, notify))]
                      ELSE StartLoad(st, lang, notify))
            /\ UNCHANGED elementLang
       ELSE /\ elementLang' = lang
            /\ Settle(IF notify = 2
                      THEN [st EXCEPT !.microtasks =
                               Append(@, Job("notifyNewLang", lang, 0, 0))]
                      ELSE st)
            /\ UNCHANGED loadingLang
    /\ UNCHANGED <<langFiles, currentLang, defaultLang>>

\* the component's setLang(lang) is called when no continuation is ready:
\* through its global properties, whose listener calls I18NClass.setLang
\* (ssr.ts:1177-1183 and 1196-1199), or without them (1200-1203)
SetLang ==
    \E lang \in Langs, notify \in {1, 2} :
        /\ microtasks = <<>>
        /\ nLangChanges < MaxLangChanges
        /\ nLangChanges' = nLangChanges + 1
        /\ SetLangOf(Promises(langPromises, waiters, microtasks, loads),
                     lang, notify)

\* WebComponentI18NManagerClass.initI18N({defaultLang}), ssr.ts:1216-1254
InitI18N ==
    \E lang \in Langs :
        /\ microtasks = <<>>
        /\ nLangChanges < MaxLangChanges
        /\ nLangChanges' = nLangChanges + 1
        /\ defaultLang' = lang
        /\ Settle(Promises(langPromises, waiters, microtasks, loads))
        /\ UNCHANGED <<langFiles, loadingLang, currentLang, elementLang>>

\* the request for the file of a language ends (ssr.ts:1079-1099): with a
\* text that the promise is fulfilled with (1106-1107), or with a failure or
\* a text that is no JSON, after which the promise stays pending
FetchEnds ==
    \E lang \in DOMAIN langPromises, ok \in BOOLEAN :
        /\ microtasks = <<>>
        /\ langPromises[lang] = "pending"
        /\ Settle(IF ok
                  THEN Promises(MapPut(langPromises, lang, "fulfilled"),
                                MapPut(waiters, lang, <<>>),
                                waiters[lang], loads)
                  ELSE Promises(MapPut(langPromises, lang, "never"),
                                waiters, microtasks, loads))
        /\ UNCHANGED <<langFiles, loadingLang, currentLang, defaultLang,
                       elementLang, nLangChanges>>

\* the first ready continuation runs
RunMicrotask ==
    /\ microtasks # <<>>
    /\ LET job == Head(microtasks)
           st == Promises(langPromises, waiters, Tail(microtasks), loads)
       IN  \/ /\ job.job = "__loadLang"
              \* ssr.ts:1110: this.langFiles[lang] = await prom
              /\ langFiles' = langFiles \cup {job.lang}
              /\ Settle(IF job.n > 0
                        THEN [st EXCEPT !.microtasks =
                                 Append(@, Job("setLang", job.lang, 0, job.n))]
                        ELSE st)
              /\ UNCHANGED <<loadingLang, currentLang, defaultLang, elementLang>>
           \/ /\ job.job = "setLang"
              \* ssr.ts:1056-1069
              /\ currentLang' = IF loadingLang = job.lang THEN job.lang
                                ELSE currentLang
              /\ elementLang' = job.lang
              /\ Settle(IF job.n = 2
                        THEN [st EXCEPT !.microtasks =
                                 Append(@, Job("notifyNewLang", job.lang, 0, 0))]
                        ELSE st)
              /\ UNCHANGED <<langFiles, loadingLang, defaultLang>>
           \/ /\ job.job = "notifyNewLang"
              \* ssr.ts:1046-1050: the listeners of the components without
              \* global properties call I18NClass.setLang (1185-1187)
              /\ SetLangOf(st, job.lang, 1)
           \/ /\ job.job = "loadCurrentLang"
              \* ssr.ts:1125-1127 and 1132-1133
              /\ Settle(IF LanguageChanged(job.lang, Lang)
                        THEN LoadCurrentLangOf(
                                [st EXCEPT !.loads[job.load].nested = job.n + 1],
                                job.load, job.n + 1, Lang, langFiles)
                        ELSE Return(st, job.load, job.n))
              /\ UNCHANGED <<langFiles, loadingLang, currentLang, defaultLang,
                             elementLang>>
           \/ /\ job.job = "take over"
              /\ Settle(IF job.n > 1
                        THEN [st EXCEPT !.microtasks =
                                 Append(@, Job("take over", NULL, job.load, job.n - 1))]
                        ELSE [st EXCEPT !.loads[job.load].status = "fulfilled"])
              /\ UNCHANGED <<langFiles, loadingLang, currentLang, defaultLang,
                             elementLang>>
    /\ UNCHANGED nLangChanges

I18NNext == LoadCurrentLang \/ SetLang \/ InitI18N \/ FetchEnds \/ RunMicrotask

\* after initI18N gave a default language
InitI18NSpec ==
    /\ MemoInit /\ changeOn = ALWAYS /\ template = "fn"
    /\ SSRInit /\ slotted = NoSlotted
    /\ TextIdle /\ NestedIdle /\ ListenersIdle
    /\ langFiles = {}
    /\ langPromises = <<>>
    /\ loadingLang = NULL
    /\ currentLang = NULL
    /\ defaultLang \in Langs
    /\ elementLang = NULL
    /\ waiters = <<>>
    /\ microtasks = <<>>
    /\ loads = <<>>
    /\ nLangChanges = 0

SpecI18N == InitI18NSpec /\ [][I18NNext]_vars

(***************************************************************************)
(* The memoizer's claims, checked under Spec                               *)
(***************************************************************************)

Called == call.method # "none"
MaskHasNever == BitAnd(changeOn, NEVER) # 0
Intersects == BitAnd(changeOn, call.changeType) # 0
\* the last call returned the cached result without computing
Reused == ~call.threw /\ ~call.changed /\ ~call.invoked
\* the cache entry of the last call's key
Entry == MapGet(templaterMap, call.key)

\* C1: a NEVER-masked template computes once per (component, templater):
\* the first call reports changed=true, and every call made after a call for
\* the same key returned (whatever it returned, also an empty or null
\* result) reports changed=false, does not invoke the render function and
\* returns that first result.
C1_NeverComputesOnce ==
    (Called /\ MaskHasNever /\ template = "fn") =>
        /\ (~call.hadEntry /\ ~call.threw) => call.changed
        /\ call.hadEntry =>
              (Reused /\ call.rendered = call.before /\ Entry = call.before)

\* C2: for every mask and reason, a render call reuses the cached result
\* (changed=false, render function not invoked) iff a prior result exists
\* for the key and the reason has no bit in common with the mask; in every
\* other case it recomputes.
C2_ReusedIffEntryAndNoIntersection ==
    Called =>
        /\ Reused <=> (call.hadEntry /\ ~Intersects)
        /\ ~Reused => (call.invoked \/ template = "null")

\* C3: for a mask without NEVER, a call that returns has, when the reason
\* intersects the mask or the key has no cache entry, invoked the render
\* function, overwritten the cache entry with its result and reported
\* changed=true; otherwise it has returned the cached result with
\* changed=false and left the entry alone.
C3_RecomputeOrReturnCached ==
    (Called /\ ~MaskHasNever /\ ~call.threw) =>
        IF Intersects \/ ~call.hadEntry
        THEN /\ call.invoked /\ call.changed
             /\ call.key \in DOMAIN templaterMap
             /\ Entry = call.rendered
        ELSE /\ ~call.invoked /\ ~call.changed
             /\ call.rendered = call.before
             /\ Entry = call.before

\* C3's case: mask PROP, a render for reason THEME after a first render
\* returns the prior result unchanged
C3_Witness ==
    /\ Called /\ changeOn = PROP /\ call.changeType = THEME
    /\ call.hadEntry /\ call.before = "A"
    /\ ~call.changed /\ call.rendered = "A"

\* C4: a render function that throws makes the call fail and leaves the
\* cache entry of the key exactly as it was, so that the next call for the
\* key with a reason that misses the mask returns the cached result if one
\* existed and recomputes if none existed.
C4_ThrowLeavesCacheUsable ==
    /\ (Called /\ call.invoked /\ call.threw) =>
          /\ call.rendered = UNDEFINED
          /\ Entry = call.before
          /\ (call.key \in DOMAIN templaterMap) <=> call.hadEntry
    /\ (Called /\ call.afterThrow /\ ~Intersects) =>
          IF call.hadEntry
          THEN Reused /\ call.rendered = call.before
          ELSE call.invoked

\* the part of C4 the code does satisfy: the failing call itself returns
\* nothing and writes nothing
ThrowWritesNothing ==
    (Called /\ call.threw) =>
        /\ call.rendered = UNDEFINED
        /\ Entry = call.before
        /\ (call.key \in DOMAIN templaterMap) <=> call.hadEntry

\* C5: a template with a null render function gives a null result, and the
\* empty string from renderAsText, on every render call, for every mask and
\* reason, without a failure.
C5_NullTemplateGivesNull ==
    (Called /\ template = "null") =>
        /\ ~call.threw
        /\ call.rendered = NULL
        /\ call.method = "renderAsText" => call.text = ""

\* C5 as amended: the same for every mask that includes NEVER, the masks
\* the constructor accepts a null render function for.
C5_NullTemplateGivesNullUnderNever ==
    (Called /\ template = "null" /\ MaskHasNever) =>
        /\ ~call.threw
        /\ call.rendered = NULL
        /\ call.method = "renderAsText" => call.text = ""

\* C5's case: a second renderAsText of a null NEVER template for one key
C5_Witness ==
    /\ Called /\ template = "null" /\ changeOn = NEVER
    /\ call.method = "renderAsText" /\ call.hadEntry /\ call.text = ""


(***************************************************************************)
(* The renderer's claims, checked under SpecSSR                            *)
(***************************************************************************)

\* all tags of a tree, the tree's root first
RECURSIVE TagsOf(_)
RECURSIVE TagsOfAll(_, _)
TagsOf(tag) ==
    IF tag.type # "TAG" THEN <<>>
    ELSE <<tag>> \o TagsOfAll(tag.children, 1)
TagsOfAll(tags, i) ==
    IF i > Len(tags) THEN <<>>
    ELSE TagsOf(tags[i]) \o TagsOfAll(tags, i + 1)

\* all tags of everything the renders on the shared session returned
RECURSIVE OutputTagsFrom(_)
OutputTagsFrom(i) ==
    IF i > Len(outputs) THEN <<>>
    ELSE (IF outputs[i].own THEN <<>> ELSE TagsOf(outputs[i].dom))
         \o OutputTagsFrom(i + 1)
OutputTags == OutputTagsFrom(1)

IsSheet(tag) == "owner" \in DOMAIN tag
IsExpansion(tag) == "expansion" \in DOMAIN tag
\* the positions of the expanded elements and of the sheets among tags
ExpansionsAmong(tags) == {k \in DOMAIN tags : IsExpansion(tags[k])}
SheetsAmong(tags) == {k \in DOMAIN tags : IsSheet(tags[k])}
\* the sheets a tag holds as children
SheetsIn(tag) == {k \in DOMAIN tag.children : IsSheet(tag.children[k])}
\* the expansions of a definition in the session, as positions of the log
ExpansionsOf(element) == {k \in DOMAIN log : log[k].element = element}
\* the css templates of a definition whose sheet is global, or unique
GlobalTemplates(element) ==
    {i \in DOMAIN Css(element) :
        Css(element)[i] = THEME \/ BitAnd(Css(element)[i], NEVER) # 0}
UniqueTemplates(element) == DOMAIN Css(element) \ GlobalTemplates(element)

\* C6: over the renders of one session, the global stylesheet of a
\* definition is in the output only in that definition's first expansion,
\* and so at most once, however many instances are expanded.
C6_GlobalSheetOnFirstExpansionOnly ==
    LET tags == OutputTags
    IN  /\ \A k \in ExpansionsAmong(tags) :
              LET tag == tags[k]
                  element == log[tag.expansion].element
              IN  \A c \in SheetsIn(tag) :
                     tag.children[c].owner[2] \in GlobalTemplates(element) =>
                        \A j \in ExpansionsOf(element) : j >= tag.expansion
        /\ \A element \in Defs : \A i \in GlobalTemplates(element) :
              Cardinality({k \in SheetsAmong(tags) :
                              tags[k].owner = <<element, i>>}) <= 1

\* C6's case: a definition with a global sheet was expanded twice, nested
\* and at top level, and its sheet is in the output once
C6_Witness ==
    LET tags == OutputTags
    IN  /\ Cardinality(ExpansionsOf("TestElement")) >= 2
        /\ Cardinality({k \in SheetsAmong(tags) :
                           tags[k].owner = <<"TestElement", 1>>}) = 1

\* the selectors of the rules at the top of a stylesheet
TopSelectors(rules) ==
    UNION {{rules[k].selectors[s] : s \in DOMAIN rules[k].selectors} :
              k \in {j \in DOMAIN rules : "selectors" \in DOMAIN rules[j]}}

\* C7: of the N expansions of a definition in a session, the k-th (from 0)
\* to be given its identifier has the unique identifier css-<tagname>-k, so
\* that each suffix is used once; the expanded instances in the output are
\* distinct expansions, and each holds every unique stylesheet of the
\* definition once, prefixed with the identifier of that instance.
C7_UniqueSheetPerInstance ==
    LET tags == OutputTags
    IN  /\ \A k \in DOMAIN log :
              log[k].uniqueID =
                 "css-" \o log[k].tagName \o "-"
                    \o ToString(Cardinality(
                          {j \in ExpansionsOf(log[k].element) : j < k}))
        /\ \A k \in ExpansionsAmong(tags) :
              /\ tags[k].expansion \in DOMAIN log
              /\ log[tags[k].expansion].done
              /\ \A j \in ExpansionsAmong(tags) :
                    tags[j].expansion = tags[k].expansion => j = k
        /\ \A k \in ExpansionsAmong(tags) :
              LET tag == tags[k]
                  entry == log[tag.expansion]
              IN  \A i \in UniqueTemplates(entry.element) :
                     Cardinality({c \in SheetsIn(tag) :
                         /\ tag.children[c].owner = <<entry.element, i>>
                         /\ \A sel \in TopSelectors(
                                   tag.children[c].children[1].stylesheet) :
                               \E orig \in {"*", ".foo", "a", "b", "h1"} :
                                  sel = entry.uniqueID \o "-" \o orig}) = 1

\* C7's case: two instances of one definition with a unique sheet in a
\* session, with the identifiers ...-0 and ...-1
C7_Witness ==
    /\ Cardinality(ExpansionsOf("ParentElement")) >= 2
    /\ \E j, k \in ExpansionsOf("ParentElement") :
          /\ log[j].uniqueID = "css-parent-element-0"
          /\ log[k].uniqueID = "css-parent-element-1"

\* C8: within a session no unique css prefix is assigned to two expansions,
\* whatever definitions are expanded (also two definitions declaring one tag
\* name).
C8_UniquePrefixNeverReused ==
    \A j, k \in DOMAIN log : j # k => log[j].uniqueID # log[k].uniqueID

\* the part of C8 the code does satisfy: the prefixes of one definition
\* differ among each other
PrefixesOfOneDefinitionDiffer ==
    \A j, k \in DOMAIN log :
        (j # k /\ log[j].element = log[k].element) =>
            log[j].uniqueID # log[k].uniqueID

\* the definitions buildMap visits from a definition, in the order of the
\* traversal (the root before its dependencies, these in declared order),
\* cut off at the depth of the call stack
RECURSIVE VisitOrder(_, _)
RECURSIVE VisitOrderDeps(_, _, _)
VisitOrder(element, depth) ==
    IF depth > MaxStackDepth THEN <<>>
    ELSE <<element>> \o VisitOrderDeps(Dependencies(element), 1, depth)
VisitOrderDeps(deps, i, depth) ==
    IF i > Len(deps) THEN <<>>
    ELSE VisitOrder(deps[i], depth + 1) \o VisitOrderDeps(deps, i + 1, depth)

\* the tags the traversal registers, and the first and the last definition
\* it visits for a tag
TagsVisited(order) == {Is(order[k]) : k \in DOMAIN order} \ {NULL}
Visits(order, tag) == {k \in DOMAIN order : Is(order[k]) = tag}
FirstVisited(order, tag) ==
    order[CHOOSE k \in Visits(order, tag) : \A j \in Visits(order, tag) : k <= j]
LastVisited(order, tag) ==
    order[CHOOSE k \in Visits(order, tag) : \A j \in Visits(order, tag) : k >= j]

\* C9: buildMap ends on every dependency graph, also on a definition that
\* lists itself and on the cycle A -> B -> A, for which it returns a map
\* with A and B, each once.
C9_BuildMapEndsOnCycles ==
    built.status # "none" =>
        /\ built.status = "ok"
        /\ built.element = "CycA" =>
              built.map = [t \in {"cyc-a", "cyc-b"} |->
                              IF t = "cyc-a" THEN "CycA" ELSE "CycB"]

\* the last render
LastRender == outputs[Len(outputs)]
\* the last render was made on the shared session and got past buildMap
ExtendedSession ==
    outputs # <<>> /\ ~LastRender.own /\ LastRender.status # "RangeError"

SharedOk == {k \in DOMAIN outputs : ~outputs[k].own /\ outputs[k].status = "ok"}
\* the session's dependency map during render k
MapDuring(k) ==
    MergeMaps(outputs[k].mapBefore, buildMap(outputs[k].element).map)

\* C11: in what a render returns, every element at any depth whose tag name
\* is in the session's dependency map (also one inside a div, and one in the
\* content passed to a nested element) is the expansion of the definition
\* the map binds the tag name to.
C11_EveryMappedTagExpanded ==
    \A k \in SharedOk :
        LET tags == TagsOf(outputs[k].dom)
            map == MapDuring(k)
        IN  \A t \in DOMAIN tags :
               tags[t].tagName \in DOMAIN map =>
                  /\ IsExpansion(tags[t])
                  /\ log[tags[t].expansion].element = map[tags[t].tagName]

\* what the code does satisfy: the custom elements at the top of a
\* definition's markup are expanded
TopLevelMappedTagsExpanded ==
    \A k \in SharedOk :
        LET tags == TagsOf(outputs[k].dom)
            map == MapDuring(k)
        IN  \A t \in DOMAIN tags :
               IsExpansion(tags[t]) =>
                  \A c \in DOMAIN tags[t].children :
                     LET child == tags[t].children[c]
                     IN  (child.type = "TAG" /\ child.tagName \in DOMAIN map)
                            => IsExpansion(child)

\* the paths of the slot elements of a markup wherever they occur, in
\* document order; nothing is looked for inside a slot
RECURSIVE AllSlotPaths(_, _, _)
AllSlotPaths(tags, k, path) ==
    IF k > Len(tags) THEN <<>>
    ELSE LET tag == tags[k]
             here == Append(path, k)
         IN  (IF tag.type # "TAG" THEN <<>>
              ELSE IF tag.tagName = "slot" THEN <<here>>
              ELSE AllSlotPaths(tag.children, 1, here))
             \o AllSlotPaths(tags, k + 1, path)
\* the receivers among them: the first slot of each name and the first slot
\* without a name
IsReceiver(tags, paths, k) ==
    LET attributes == TagAt(tags, paths[k]).attributes
    IN  \A j \in 1..(k - 1) :
           LET earlier == TagAt(tags, paths[j]).attributes
           IN  IF "name" \in DOMAIN attributes
               THEN "name" \in DOMAIN earlier => earlier["name"] # attributes["name"]
               ELSE "name" \in DOMAIN earlier
\* the content nodes with a slot attribute of one name, and those without
SlottablesNamed(light, name) ==
    SelectSeq(light, LAMBDA n : n.type = "TAG" /\ "slot" \in DOMAIN n.attributes
                                 /\ n.attributes["slot"] = name)
UnnamedSlottables(light) ==
    SelectSeq(light, LAMBDA n : n.type = "TAG" /\ "slot" \notin DOMAIN n.attributes)
IsPrefixOf(s, t) == Len(s) <= Len(t) /\ \A k \in DOMAIN s : s[k] = t[k]

\* C12: applySlots finds the slot elements of the component's markup wherever
\* they are, also inside other elements; afterwards the receiver of a name
\* that one slottable carries holds that slottable, and the unnamed receiver
\* holds the unnamed slottables first.  For the markup
\* <div><slot name="a"></slot><slot></slot></div> and the content
\* <span slot="a">X</span><b>Y</b> the result is
\* <div><slot name="a"><span slot="a">X</span></slot><slot><b>Y</b></slot></div>.
C12_SlotsFilledWhereverTheyAre ==
    slotted.applied =>
       LET paths == AllSlotPaths(slotted.element, 1, <<>>)
           spanX == TagNode("span", [slot |-> Str(<<"a">>)], <<TextNode("X")>>)
           bY == TagNode("b", NoAttributes, <<TextNode("Y")>>)
       IN  /\ \A k \in DOMAIN paths :
                 IsReceiver(slotted.element, paths, k) =>
                    LET before == TagAt(slotted.element, paths[k])
                        after == TagAt(slotted.result, paths[k])
                    IN  IF "name" \in DOMAIN before.attributes
                        THEN LET mine == SlottablesNamed(slotted.light,
                                             before.attributes["name"])
                             IN  Len(mine) = 1 => after.children = mine
                        ELSE IsPrefixOf(UnnamedSlottables(slotted.light),
                                        after.children)
           /\ (slotted.element = HtmlTags("SlotHost", "")
                 /\ slotted.light = <<spanX, bY>>)
                 => slotted.result =
                       <<TagNode("div", NoAttributes,
                                 <<Slot([name |-> Str(<<"a">>)], <<spanX>>),
                                   Slot(NoAttributes, <<bY>>)>>)>>

\* what the code does satisfy: the same for the slot elements at the top of
\* the component's markup
TopLevelSlotsFilled ==
    slotted.applied =>
       LET paths == AllSlotPaths(slotted.element, 1, <<>>)
       IN  \A k \in DOMAIN paths :
              (IsReceiver(slotted.element, paths, k) /\ Len(paths[k]) = 1) =>
                 LET before == TagAt(slotted.element, paths[k])
                     after == TagAt(slotted.result, paths[k])
                 IN  IF "name" \in DOMAIN before.attributes
                     THEN LET mine == SlottablesNamed(slotted.light,
                                          before.attributes["name"])
                          IN  Len(mine) = 1 => after.children = mine
                     ELSE IsPrefixOf(UnnamedSlottables(slotted.light),
                                     after.children)

\* the names of the named slot elements of a markup
ReceiverNames(tags) ==
    LET paths == AllSlotPaths(tags, 1, <<>>)
    IN  {TagAt(tags, paths[k]).attributes["name"] :
            k \in {j \in DOMAIN paths :
                      "name" \in DOMAIN TagAt(tags, paths[j]).attributes}}
\* the content nodes with a slot attribute that names no receiver
UnmatchedSlottables(tags, light) ==
    SelectSeq(light, LAMBDA n : n.type = "TAG" /\ "slot" \in DOMAIN n.attributes
                                 /\ n.attributes["slot"] \notin ReceiverNames(tags))
\* a markup with every slot element emptied
RECURSIVE Emptied(_)
Emptied(tags) ==
    [k \in DOMAIN tags |->
        IF tags[k].type # "TAG" THEN tags[k]
        ELSE IF tags[k].tagName = "slot" THEN [tags[k] EXCEPT !.children = <<>>]
        ELSE [tags[k] EXCEPT !.children = Emptied(tags[k].children)]]
HasUnnamedReceiver(tags) ==
    LET paths == AllSlotPaths(tags, 1, <<>>)
    IN  \E k \in DOMAIN paths :
           "name" \notin DOMAIN TagAt(tags, paths[k]).attributes

\* C13: after applySlots the unnamed receiver holds the unnamed slottables
\* in their order, followed by the named slottables whose name no receiver
\* has, in their order.  When the component has no unnamed receiver, none of
\* these is in the result, and the result differs from the component's
\* markup only in what its named receivers hold.
C13_UnmatchedAppendedInOrder ==
    slotted.applied =>
       LET paths == AllSlotPaths(slotted.element, 1, <<>>)
       IN  /\ \A k \in DOMAIN paths :
                 (IsReceiver(slotted.element, paths, k)
                    /\ "name" \notin DOMAIN TagAt(slotted.element, paths[k]).attributes)
                 => TagAt(slotted.result, paths[k]).children =
                       UnnamedSlottables(slotted.light)
                          \o UnmatchedSlottables(slotted.element, slotted.light)
           /\ ~HasUnnamedReceiver(slotted.element) =>
                 /\ Emptied(slotted.result) = Emptied(slotted.element)
                 /\ \A k \in DOMAIN paths :
                       LET before == TagAt(slotted.element, paths[k])
                           after == TagAt(slotted.result, paths[k])
                       IN  \/ after.children = before.children
                           \/ \A c \in DOMAIN after.children :
                                 /\ after.children[c].type = "TAG"
                                 /\ "slot" \in DOMAIN after.children[c].attributes
                                 /\ after.children[c].attributes["slot"] =
                                       before.attributes["name"]

\* what the code does satisfy: the second half of C13
NoUnnamedReceiverDropsContent ==
    (slotted.applied /\ ~HasUnnamedReceiver(slotted.element)) =>
       LET paths == AllSlotPaths(slotted.element, 1, <<>>)
       IN  /\ Emptied(slotted.result) = Emptied(slotted.element)
           /\ \A k \in DOMAIN paths :
                 LET before == TagAt(slotted.element, paths[k])
                     after == TagAt(slotted.result, paths[k])
                 IN  \/ after.children = before.children
                     \/ \A c \in DOMAIN after.children :
                           /\ after.children[c].type = "TAG"
                           /\ "slot" \in DOMAIN after.children[c].attributes
                           /\ after.children[c].attributes["slot"] =
                                 before.attributes["name"]
\* and the first half for top-level receivers, when the unmatched slot names
\* differ from each other and none of them is written as an array index
UnmatchedAppendedWhenNamesDifferAndAreNoIndexes ==
    slotted.applied =>
       LET paths == AllSlotPaths(slotted.element, 1, <<>>)
           unmatched == UnmatchedSlottables(slotted.element, slotted.light)
       IN  \A k \in DOMAIN paths :
              (/\ IsReceiver(slotted.element, paths, k)
               /\ Len(paths[k]) = 1
               /\ "name" \notin DOMAIN TagAt(slotted.element, paths[k]).attributes
               /\ \A i, j \in DOMAIN unmatched :
                     i # j => unmatched[i].attributes["slot"]
                                 # unmatched[j].attributes["slot"]
               /\ \A i \in DOMAIN unmatched :
                     ~IsArrayIndex(unmatched[i].attributes["slot"].words[1]))
              => TagAt(slotted.result, paths[k]).children =
                    UnnamedSlottables(slotted.light) \o unmatched

\* the class names of a tag; none when it has no class attribute
ClassNames(tag) ==
    IF "class" \in DOMAIN tag.attributes THEN tag.attributes["class"].words
    ELSE <<>>
\* the children of an expanded element that are not its stylesheets
MarkupOf(tag) == SelectSeq(tag.children, LAMBDA n : ~IsSheet(n))
\* no tag inside a nested custom element's expansion has one of the ids
NoIdInside(tag, ids) ==
    LET inner == TagsOfAll(tag.children, 1)
    IN  \A k \in DOMAIN inner :
           \A c \in DOMAIN ClassNames(inner[k]) :
              ClassNames(inner[k])[c] \notin ids
\* out is the markup orig scoped with the ids: every element has its own
\* class names followed by the two ids; below a custom element nothing has
\* them.  Texts are not compared, and neither is what a slot element
\* holds, which is the content given to the instance.
RECURSIVE ScopedAs(_, _, _, _)
ScopedAs(orig, out, uniqueID, componentID) ==
    /\ Len(out) = Len(orig)
    /\ \A k \in DOMAIN orig :
          IF orig[k].type # "TAG" THEN out[k].type = orig[k].type
          ELSE /\ out[k].type = "TAG"
               /\ out[k].tagName = orig[k].tagName
               /\ "class" \in DOMAIN out[k].attributes
               /\ out[k].attributes["class"] =
                     Str(ClassNames(orig[k]) \o <<uniqueID, componentID>>)
               /\ IF HasDash(orig[k].tagName)
                  THEN NoIdInside(out[k], {uniqueID, componentID})
                  ELSE orig[k].tagName = "slot"
                       \/ ScopedAs(orig[k].children, out[k].children,
                                   uniqueID, componentID)

\* C14: in what the renders return, the markup of every expanded element is
\* the definition's own markup with, on each of its elements, the element's
\* class names kept and followed by the instance's unique id and the
\* definition's global id; this holds down to the nested custom elements,
\* which get the two ids themselves, and no element inside a nested custom
\* element's expansion has an id of the outer definition.
C14_ScopingKeepsClassesAndStopsAtCustomElements ==
    LET tags == OutputTags
    IN  \A k \in ExpansionsAmong(tags) :
           LET entry == log[tags[k].expansion]
           IN  ScopedAs(HtmlTags(entry.element, ""),
                        MarkupOf(tags[k]),
                        entry.uniqueID,
                        GenerateComponentID(entry.tagName))

\* what the code does satisfy: the same for the definitions whose markup
\* holds no element of a definition with a property configuration
NestsConfigured(element) ==
    LET own == TagsOfAll(HtmlTags(element, ""), 1)
    IN  \E k \in DOMAIN own : \E d \in Defs :
           HasPropsConfig(d) /\ own[k].tagName = Is(d)
ScopingWithoutPropertyConfiguration ==
    LET tags == OutputTags
    IN  \A k \in ExpansionsAmong(tags) :
           LET entry == log[tags[k].expansion]
           IN  ~NestsConfigured(entry.element) =>
                  ScopedAs(HtmlTags(entry.element, ""), MarkupOf(tags[k]),
                           entry.uniqueID, GenerateComponentID(entry.tagName))

\* the selectors of a stylesheet in document order, those of the rules
\* inside at-rules included
RECURSIVE AllSelectors(_, _)
AllSelectors(rules, k) ==
    IF k > Len(rules) THEN <<>>
    ELSE (IF "selectors" \in DOMAIN rules[k] THEN rules[k].selectors
          ELSE AllSelectors(rules[k].rules, 1))
         \o AllSelectors(rules, k + 1)
\* the parsed rules of a style tag
RulesOf(sheet) == sheet.children[1].stylesheet
\* the id the claims give the sheet of css template i of an instance
IdOfSheet(element, i, uniqueID, tagName) ==
    IF i \in GlobalTemplates(element) THEN "css-" \o tagName ELSE uniqueID

\* C15: in what the renders return, every selector of every stylesheet of an
\* expanded element, the selectors inside @media included, is the original
\* selector behind <id>-, once, with the instance's unique id for a unique
\* sheet and css-<tagname> for a global sheet.
C15_EverySelectorPrefixedOnce ==
    LET tags == OutputTags
    IN  \A k \in ExpansionsAmong(tags) :
           LET entry == log[tags[k].expansion]
           IN  \A c \in SheetsIn(tags[k]) :
                  LET sheet == tags[k].children[c]
                      original == AllSelectors(
                          CssRules(sheet.owner[1], sheet.owner[2], ""), 1)
                      id == IdOfSheet(sheet.owner[1], sheet.owner[2],
                                      entry.uniqueID, entry.tagName)
                  IN  AllSelectors(RulesOf(sheet), 1) =
                         [s \in DOMAIN original |-> id \o "-" \o original[s]]

\* what the code does satisfy: the same for the selectors of the rules at
\* the top of a stylesheet
TopLevelSelectorsPrefixedOnce ==
    LET tags == OutputTags
        Top(rules) == SelectSeq(rules, LAMBDA r : "selectors" \in DOMAIN r)
    IN  \A k \in ExpansionsAmong(tags) :
           LET entry == log[tags[k].expansion]
           IN  \A c \in SheetsIn(tags[k]) :
                  LET sheet == tags[k].children[c]
                      original == AllSelectors(Top(
                          CssRules(sheet.owner[1], sheet.owner[2], "")), 1)
                      id == IdOfSheet(sheet.owner[1], sheet.owner[2],
                                      entry.uniqueID, entry.tagName)
                  IN  AllSelectors(Top(RulesOf(sheet)), 1) =
                         [s \in DOMAIN original |-> id \o "-" \o original[s]]

\* the sheets of css template i of a definition in the expansions that have
\* the unique id, among what the renders returned
SheetsScopedWith(element, i, uniqueID) ==
    LET tags == OutputTags
    IN  UNION {{tags[k].children[c] :
                   c \in {j \in SheetsIn(tags[k]) :
                             tags[k].children[j].owner = <<element, i>>}} :
               k \in {j \in ExpansionsAmong(tags) :
                         /\ log[tags[j].expansion].element = element
                         /\ log[tags[j].expansion].uniqueID = uniqueID}}

\* C16 as the claim has it: the stylesheet .foo { color: red; } scoped with
\* the unique id css-my-el-0 has the selector .css-my-el-0-.foo and is
\* written out as that selector with the declaration color: red.
C16_SelectorWithLeadingDot ==
    \A sheet \in SheetsScopedWith("MyEl", 1, "css-my-el-0") :
       /\ RulesOf(sheet) = <<Rule(<<".css-my-el-0-.foo">>, "color: red")>>
       /\ sheet.children[1].content = ".css-my-el-0-.foo {\n  color: red;\n}"

\* C16: the stylesheet .foo { color: red; } scoped with the unique id
\* css-my-el-0 has the selector css-my-el-0-.foo, without a dot before the
\* id, and is written out as that selector with the declaration color: red.
C16_SelectorIsIdDashOriginal ==
    \A sheet \in SheetsScopedWith("MyEl", 1, "css-my-el-0") :
       /\ RulesOf(sheet) = <<Rule(<<"css-my-el-0-.foo">>, "color: red")>>
       /\ sheet.children[1].content = "css-my-el-0-.foo {\n  color: red;\n}"

\* C16's case: a render returned an instance of my-el scoped with
\* css-my-el-0, holding the sheet that was .foo { color: red; }
C16_Witness ==
    /\ CssRules("MyEl", 1, "") = <<Rule(<<".foo">>, "color: red")>>
    /\ SheetsScopedWith("MyEl", 1, "css-my-el-0") # {}

\* the mask of the template a sheet was rendered from
MaskOf(sheet) == Css(sheet.owner[1])[sheet.owner[2]]
\* the selectors of the top-level rules of the text of that template
OriginalTopSelectors(sheet) ==
    TopSelectors(CssRules(sheet.owner[1], sheet.owner[2], ""))

\* C17: in what the renders return, a stylesheet whose template's mask is
\* THEME alone or includes NEVER is prefixed with the definition's global id
\* css-<tagname>, and a stylesheet of any other mask with the unique id of
\* the instance it is in.
C17_GlobalIffThemeAloneOrNever ==
    LET tags == OutputTags
    IN  \A k \in ExpansionsAmong(tags) :
           LET entry == log[tags[k].expansion]
           IN  \A c \in SheetsIn(tags[k]) :
                  LET sheet == tags[k].children[c]
                      mask == MaskOf(sheet)
                      id == IF mask = THEME \/ BitAnd(mask, NEVER) # 0
                            THEN "css-" \o entry.tagName
                            ELSE entry.uniqueID
                  IN  TopSelectors(RulesOf(sheet)) =
                         {id \o "-" \o s : s \in OriginalTopSelectors(sheet)}

\* C17's case: a render returned an instance that holds sheets of the masks
\* PROP, LANG, PROP|THEME, NEVER|PROP and THEME
C17_Witness ==
    LET tags == OutputTags
    IN  \E k \in ExpansionsAmong(tags) :
           {PROP, LANG, PROP + THEME, NEVER + PROP, THEME}
              \subseteq {MaskOf(tags[k].children[c]) : c \in SheetsIn(tags[k])}

\* the renders that returned, on any session
ReturnedOk == {k \in DOMAIN outputs : outputs[k].status = "ok"}
\* the attributes elementToTag is given for the rendered element
GivenAttributes(k) == MergeMaps(outputs[k].props, outputs[k].attributes)
\* the three groups of C18: the explicit attributes (those that are no
\* property of the definition), the reflected public properties, and what
\* the instance set on itself
ExplicitAttributes(k) ==
    [a \in DOMAIN GivenAttributes(k)
              \ (Reflect(outputs[k].element) \cup Priv(outputs[k].element))
        |-> GivenAttributes(k)[a]]
ReflectedProperties(k) ==
    [a \in DOMAIN GivenAttributes(k) \cap Reflect(outputs[k].element)
        |-> GivenAttributes(k)[a]]
SetByInstance(k) == InstanceAttributes(outputs[k].element, GivenAttributes(k))

\* C18: the attributes of the tag a render returns are the explicit
\* attributes, overridden by the reflected public properties, overridden by
\* the attributes the instance set on itself during the render.
C18_AttributesMergedByPrecedence ==
    \A k \in ReturnedOk :
       outputs[k].dom.attributes =
          MergeMaps(MergeMaps(ExplicitAttributes(k), ReflectedProperties(k)),
                    SetByInstance(k))

\* what the code does satisfy: the output tag has the keys of the merge,
\* and the value of the merge for every key of a reflected property or of
\* an attribute the instance set, and for every key when the definition
\* has no property configuration
MergedKeysAndPrecedence ==
    \A k \in ReturnedOk :
       LET merged == MergeMaps(MergeMaps(ExplicitAttributes(k),
                                         ReflectedProperties(k)),
                               SetByInstance(k))
           out == outputs[k].dom.attributes
       IN  /\ DOMAIN out = DOMAIN merged
           /\ \A a \in DOMAIN out :
                 (\/ a \in DOMAIN ReflectedProperties(k)
                  \/ a \in DOMAIN SetByInstance(k)
                  \/ ~HasPropsConfig(outputs[k].element))
                 => out[a] = merged[a]

\* the same call as render k, made in a process that has rendered nothing,
\* on a session of its own
InFreshProcess(k) ==
    LET o == outputs[k]
        req == Request(o.element, o.props, o.attributes, o.theme, TRUE)
        deps == buildMap(o.element)
        done == Render(req, [NewSession EXCEPT !._elementMap = deps.map],
                       <<>>, <<>>, 0)
    IN  [status |-> IF deps.overflow THEN "RangeError"
                    ELSE IF done.ctx.error = NoError THEN "ok"
                    ELSE done.ctx.error.name,
         text |-> IF deps.overflow \/ done.ctx.error # NoError THEN UNDEFINED
                  ELSE ToText(done.tag)]

\* C19: a render on a fresh session of its own returns the text that the
\* same definition, attributes and theme give in a process that has
\* rendered nothing, whatever was rendered before it on other sessions; so
\* two such renders of the same definition, attributes and theme return the
\* same text.
C19_FreshSessionsRenderAlike ==
    /\ \A k \in DOMAIN outputs :
          outputs[k].own =>
             /\ outputs[k].status = InFreshProcess(k).status
             /\ outputs[k].text = InFreshProcess(k).text
    /\ \A j, k \in DOMAIN outputs :
          (/\ outputs[j].own /\ outputs[k].own
           /\ outputs[j].element = outputs[k].element
           /\ outputs[j].props = outputs[k].props
           /\ outputs[j].attributes = outputs[k].attributes
           /\ outputs[j].theme = outputs[k].theme)
          => outputs[j].text = outputs[k].text

\* C19's case: a render on a fresh session returned after the templates of
\* its definition had been rendered with other attributes or another theme
C19_Witness ==
    \E j, k \in DOMAIN outputs :
       /\ j < k
       /\ outputs[k].own /\ outputs[k].status = "ok"
       /\ outputs[j].status = "ok"
       /\ outputs[j].element = outputs[k].element
       /\ outputs[j].text # outputs[k].text

\* the template whose render function throws during render k: Thrower's
\* html template when the instance has the attribute fail, its css template
\* when it has failcss; Outer nests a thrower-el with fail.  NULL if none.
ThrowingTemplate(k) ==
    LET o == outputs[k]
        given == MergeMaps(o.props, o.attributes)
    IN  IF o.element = "Thrower" /\ "fail" \in DOMAIN given THEN HtmlThis("Thrower")
        ELSE IF o.element = "Thrower" /\ "failcss" \in DOMAIN given
        THEN CssThis("Thrower", 1)
        ELSE IF o.element = "Outer" THEN HtmlThis("Thrower")
        ELSE NULL

\* C20: a render during which a render function threw, that of the rendered
\* definition or that of a nested one, fails with a RenderError whose source
\* is the error thrown, whose message holds that error's message and whose
\* stack is that error's stack; it returns no tree and no text.  No other
\* render fails with a RenderError.
C20_ThrowSurfacesAsRenderError ==
    \A k \in DOMAIN outputs :
       LET o == outputs[k]
           this == ThrowingTemplate(k)
       IN  IF this = NULL THEN o.status # "RenderError"
           ELSE /\ o.status = "RenderError"
                /\ o.error.name = "RenderError"
                /\ o.error.source = Thrown(this)
                /\ o.error.message =
                      "Error while rendering component on the server: Error, "
                         \o Thrown(this).message
                /\ o.error.stack = Thrown(this).stack
                /\ o.dom = NoDom
                /\ o.text = UNDEFINED

\* C20's case: a render failed on the html template of a nested definition
\* and one on a css template of the rendered definition
C20_Witness ==
    \E j, k \in DOMAIN outputs :
       /\ outputs[j].element = "Outer" /\ outputs[j].status = "RenderError"
       /\ outputs[k].element = "Thrower" /\ outputs[k].status = "RenderError"
       /\ outputs[k].error.source = Thrown(CssThis("Thrower", 1))

\* the text of the stylesheet of render k that parseCSS rejects: Thrower's
\* sheet when the instance has the attribute badcss.  NULL if none.
UnparsableSheet(k) ==
    LET o == outputs[k]
    IN  IF o.element = "Thrower"
           /\ "badcss" \in DOMAIN MergeMaps(o.props, o.attributes)
        THEN CssText("Thrower", 1, "bad") ELSE NULL

\* C21: a render during which the text of a rendered stylesheet failed to
\* parse fails with a CSSParseError, which is no RenderError, whose file is
\* the text of the stylesheet and whose source is the error the parser
\* threw; it returns no tree and no text.  No other render fails with a
\* CSSParseError.
C21_ParseFailureSurfacesAsCSSParseError ==
    \A k \in DOMAIN outputs :
       LET o == outputs[k]
           content == UnparsableSheet(k)
       IN  IF content = NULL THEN o.status # "CSSParseError"
           ELSE /\ o.status = "CSSParseError"
                /\ o.error.name = "CSSParseError"
                /\ o.error.file = content
                /\ o.error.source = ParserError(content)
                /\ o.dom = NoDom
                /\ o.text = UNDEFINED

\* C21's case: a render was given a stylesheet that does not parse and failed
C21_Witness ==
    \E k \in DOMAIN outputs :
       /\ UnparsableSheet(k) # NULL
       /\ ~CssParses("Thrower", 1, "bad")
       /\ outputs[k].status # "ok"

\* s0 v1 s1 ... vn sn, from the last pair down
RECURSIVE Interleaved(_, _)
Interleaved(strings, values) ==
    IF values = <<>> THEN strings[1]
    ELSE Interleaved(SubSeq(strings, 1, Len(strings) - 1),
                     SubSeq(values, 1, Len(values) - 1))
            \o ElementText(values[Len(values)]) \o strings[Len(strings)]

\* a result with a text conversion of its own
HasOwnConversion(result) ==
    result.type = "object" /\ result.toText.type = "function"

\* a result of segments s0..sn and values v1..vn
IsStructured(result) ==
    /\ result.type = "object"
    /\ result.strings # Absent /\ result.values # Absent
    /\ Len(result.strings.items) = Len(result.values.items) + 1

\* a result of none of the shapes the conversion knows
Unrecognized(result) ==
    \/ result.type = "number"
    \/ /\ result.type = "object"
       /\ ~HasOwnConversion(result)
       /\ result.strings = Absent \/ result.values = Absent

\* C22: renderAsText returns a string result unchanged, the empty string for
\* a null result, the result's own conversion when it has one, the segments
\* and values s0 v1 s1 ... vn sn in order for a structured result without
\* one, and throws for a result of no recognized shape.
C22_ResultsFlattenedToText ==
    asText # NoText =>
       /\ textResult.type = "string" => asText = Returns(textResult.value)
       /\ textResult.type = "null" => asText = Returns("")
       /\ HasOwnConversion(textResult) => asText = Returns(textResult.toText.returns)
       /\ IsStructured(textResult) /\ ~HasOwnConversion(textResult) =>
             asText = Returns(Interleaved(textResult.strings.items, textResult.values.items))
       /\ Unrecognized(textResult) => asText.threw

\* C22's case: a structured result with two different values was converted
C22_Witness ==
    /\ asText # NoText
    /\ IsStructured(textResult) /\ ~HasOwnConversion(textResult)
    /\ Len(textResult.values.items) = 2
    /\ textResult.values.items[1] # textResult.values.items[2]
    /\ textResult.strings.items[1] # textResult.strings.items[2]

\* the cache with the entries of other keys than `key` removed
OwnEntryOnly(map, key) == [k \in DOMAIN map \cap {key} |-> map[k]]

\* what the render call recorded in d would have decided and returned had
\* the cache held no entry of another key
DecidedAlone(d, map, fns) ==
    RenderWithTemplater(d.key[3], OwnEntryOnly(map, d.key),
        fns[d.key[3]].changeOn, "fn", d.changeType, d.key[2], d.supplied,
        IF d.threw THEN THROWS ELSE d.rendered)

\* C23: a render call works on the cache entry of its own triple
\* (templater, component, template), with the component in the templater's
\* place when no usable templater is given: the entries of all other
\* triples stay as they are, and what the call decides and returns is what
\* it would decide and return if there were no other entry.
C23_RendersTouchOnlyTheirOwnTriple ==
    [][nRenderCalls' = nRenderCalls + 1 =>
         LET d == decided'
             alone == DecidedAlone(d, templaterMap, templateFns)
         IN  /\ d.key[1] = (IF d.supplied = NoTemplater THEN d.key[2]
                            ELSE d.supplied)
             /\ \A k \in (DOMAIN templaterMap \cup DOMAIN templaterMap') \ {d.key} :
                   /\ k \in DOMAIN templaterMap /\ k \in DOMAIN templaterMap'
                   /\ templaterMap'[k] = templaterMap[k]
             /\ d.changed = alone.changed
             /\ d.invoked = alone.invoked
             /\ d.rendered = alone.rendered
             /\ ~d.changed /\ ~d.threw => d.rendered = templaterMap[d.key]]_vars

\* C23's case: a render call without a usable templater returned what is
\* cached while the cache holds another result for the same component
C23_Witness ==
    /\ decided # NoDecision
    /\ decided.supplied = NoTemplater
    /\ ~decided.changed /\ ~decided.threw
    /\ \E k \in DOMAIN templaterMap :
          /\ k # decided.key /\ k[2] = decided.key[2]
          /\ templaterMap[k] # templaterMap[decided.key]

\* C24: whenever a running render function calls the markup builder it was
\* handed, the builder is bound to the component that render function is
\* rendering, also after the render function made a render call for another
\* component through the same templater.
C24_BuilderBoundToRenderedComponent ==
    jsxCall # NoJsxCall => jsxCall.boundTo = jsxCall.by

\* C25: renderIfNew writes the template the last renderTemplate call for a
\* component returned exactly when that call reported a change, whatever
\* render calls of the same template for other components or through other
\* templaters were made in between.
C25_WritesExactlyWhenChangeReported ==
    ifNew # NoIfNew => (ifNew.wrote <=> ifNew.reported)

\* whether the listener of registration n is attached where it was attached
IsAttached(n) ==
    <<registrations[n].target, registrations[n].event, BoundListener(n)>> \in attached

\* whether all registrations were made by listen or listenWithIdentifier
\* with one id or identifier, one element and one event
OneListenedCombination ==
    \A n, m \in DOMAIN registrations :
       /\ registrations[n].via \in {"listen", "listenWithIdentifier"}
       /\ registrations[n].via = registrations[m].via
       /\ registrations[n].id = registrations[m].id
       /\ registrations[n].target = registrations[m].target
       /\ registrations[n].event = registrations[m].event

\* C26: after calls of listen (or of listenWithIdentifier) with the same id
\* (or identifier), the same element and the same event, at most one of the
\* listeners they registered is attached.
C26_AtMostOneListenerPerIdAndEvent ==
    OneListenedCombination =>
       Cardinality({n \in DOMAIN registrations : IsAttached(n)}) <= 1

\* the registrations made by listenToComponentUnique for an event
UniqueRegistrations(event) ==
    {n \in DOMAIN registrations :
        /\ registrations[n].via = "listenToComponentUnique"
        /\ registrations[n].event = event}

\* the last of a non-empty set of registrations
Latest(ns) == CHOOSE n \in ns : \A m \in ns : m <= n

\* C27: of the listeners registered by listenToComponentUnique for an
\* event, the one registered last is attached to the base and no other is,
\* as long as the last one was not removed by the function returned for it
\* or by removeAllElementListeners.
C27_OnlyLatestUniqueListenerAttached ==
    \A event \in Events :
       LET ns == UniqueRegistrations(event)
       IN  /\ ns # {}
           /\ ~registrations[Latest(ns)].called
           /\ ~registrations[Latest(ns)].cleared
           => {n \in ns : IsAttached(n)} = {Latest(ns)}

\* C28: once the function returned by listen, listenWithIdentifier,
\* listenToComponentUnique or listenToComponent was called, the listener
\* attached by that registration is not attached.
C28_ReturnedFunctionDetaches ==
    \A n \in DOMAIN registrations :
       /\ registrations[n].via \in {"listen", "listenWithIdentifier",
                                    "listenToComponentUnique", "listenToComponent"}
       /\ registrations[n].called
       => ~IsAttached(n)

\* C29: after removeAllElementListeners(base) no listener registered for the
\* base before it is attached to an element or to the base.
C29_RemoveAllDetachesEveryListener ==
    \A n \in DOMAIN registrations : registrations[n].cleared => ~IsAttached(n)

\* C30: in a step in which the promise of a loadCurrentLang call (of
\* langReady) is fulfilled, the file of the language that I18NClass.lang
\* then reports is loaded.
C30_ResolvedMeansCurrentLanguageLoaded ==
    [][\A load \in DOMAIN loads' :
          /\ loads'[load].status = "fulfilled"
          /\ load \in DOMAIN loads => loads[load].status = "pending"
          => LangOf(currentLang', loadingLang', defaultLang') \in langFiles']_vars

\* C30's case: a promise was fulfilled after the language had changed while
\* it was pending
C30_Witness ==
    \E load \in DOMAIN loads :
       /\ loads[load].status = "fulfilled"
       /\ loads[load].nested > 0
       /\ Lang \in langFiles

\* whether registration n was made by listen or listenWithIdentifier for an
\* id or identifier whose entry held another element (listeners.ts:81)
ElementChanged(n) ==
    /\ registrations[n].via \in {"listen", "listenWithIdentifier"}
    /\ registrations[n].removeFrom # registrations[n].target

\* the registrations made before n under the id or identifier of n
EarlierUnderId(n) ==
    {m \in 1..(n - 1) : /\ registrations[m].type = registrations[n].type
                        /\ registrations[m].id = registrations[n].id}

\* C31: when listen or listenWithIdentifier is called for an id or identifier
\* whose entry held another element, the listeners registered under that id
\* before are detached from the old element, the new listener is attached to
\* the new element for as long as nothing removed or replaced it, and once
\* the function it returned or removeAllElementListeners was called it is
\* detached.
C31_ElementChangeMovesAndTracksListener ==
    \A n \in DOMAIN registrations :
       ElementChanged(n) =>
          /\ \A m \in EarlierUnderId(n) :
                registrations[m].target # registrations[n].target => ~IsAttached(m)
          /\ (n = Len(registrations) /\ ~registrations[n].called
                /\ ~registrations[n].cleared) => IsAttached(n)
          /\ (registrations[n].called \/ registrations[n].cleared) => ~IsAttached(n)

\* the renders made on the shared session
SharedRenders == {k \in DOMAIN outputs : ~outputs[k].own}

\* the tag names render k registered: those of the graph of its definition
\* (ssr.ts:950-953), none when buildMap threw
TagsRegisteredBy(k) ==
    IF outputs[k].status = "RangeError" THEN {}
    ELSE DOMAIN buildMap(outputs[k].element).map

\* the tag names the session resolved once render k had extended its map
TagsAfter(k) == DOMAIN outputs[k].mapBefore \cup TagsRegisteredBy(k)

\* C32: a session given to several renders accumulates its dependency map:
\* every tag name an earlier render registered, or found registered, is in
\* the map every later render of the session starts from and in the map the
\* session holds now; no render removes a tag name.
C32_SessionMapAccumulates ==
    /\ \A i, j \in SharedRenders :
          i < j => TagsAfter(i) \subseteq DOMAIN outputs[j].mapBefore
    /\ \A i \in SharedRenders : TagsAfter(i) \subseteq DOMAIN session._elementMap

\* two successful renders on the shared session, each of a definition whose
\* graph holds a tag name the other's does not
C32_Witness ==
    \E i, j \in SharedRenders :
       /\ i < j
       /\ outputs[i].status = "ok" /\ outputs[j].status = "ok"
       /\ TagsRegisteredBy(i) \ TagsRegisteredBy(j) # {}
       /\ TagsRegisteredBy(j) \ TagsRegisteredBy(i) # {}
       /\ TagsRegisteredBy(i) \cup TagsRegisteredBy(j)
             \subseteq DOMAIN session._elementMap

\* the renders on the shared session that returned, and those that threw
ReturnedRenders == {k \in SharedRenders : outputs[k].status = "ok"}
AbortedRenders == SharedRenders \ ReturnedRenders

\* the definitions expanded in what render k returned
ExpandedIn(k) ==
    LET tags == TagsOf(outputs[k].dom)
    IN  {log[tags[t].expansion].element : t \in ExpansionsAmong(tags)}

\* whether what render k returned holds the sheet of css template i of the
\* definition
HoldsSheet(k, element, i) ==
    LET tags == TagsOf(outputs[k].dom)
    IN  \E t \in SheetsAmong(tags) : tags[t].owner = <<element, i>>

\* C33: after a render on the shared session aborted, every definition a
\* later returned render expands has each of its global stylesheets in the
\* output of that render or of a returned render before it: the session's
\* record of emitted global stylesheets holds only definitions whose
\* global stylesheet was delivered.
C33_AbortedRenderRecordsNoUndeliveredSheet ==
    \A j \in ReturnedRenders :
       (\E a \in AbortedRenders : a < j) =>
          \A element \in ExpandedIn(j) : \A i \in GlobalTemplates(element) :
             \E k \in ReturnedRenders : k <= j /\ HoldsSheet(k, element, i)

\* whether the content holds nothing for the receiver at path k of paths:
\* for a named receiver no node carries its name, for the unnamed receiver
\* every node is an element whose slot attribute names a receiver
NothingSuppliedFor(tags, light, paths, k) ==
    LET attributes == TagAt(tags, paths[k]).attributes
    IN  IF "name" \in DOMAIN attributes
        THEN SlottablesNamed(light, attributes["name"]) = <<>>
        ELSE \A n \in DOMAIN light :
                /\ light[n].type = "TAG"
                /\ "slot" \in DOMAIN light[n].attributes
                /\ light[n].attributes["slot"] \in ReceiverNames(tags)

\* C34: after applySlots a receiver, named or unnamed, for which the content
\* holds nothing has the children it had in the component's markup.
C34_ReceiverWithoutContentKeepsDefault ==
    slotted.applied =>
       LET paths == AllSlotPaths(slotted.element, 1, <<>>)
       IN  \A k \in DOMAIN paths :
              (IsReceiver(slotted.element, paths, k)
                 /\ NothingSuppliedFor(slotted.element, slotted.light, paths, k))
              => TagAt(slotted.result, paths[k]).children =
                    TagAt(slotted.element, paths[k]).children

\* what the code does satisfy: the same for the named receivers
NamedReceiverWithoutContentKeepsDefault ==
    slotted.applied =>
       LET paths == AllSlotPaths(slotted.element, 1, <<>>)
       IN  \A k \in DOMAIN paths :
              (/\ IsReceiver(slotted.element, paths, k)
               /\ "name" \in DOMAIN TagAt(slotted.element, paths[k]).attributes
               /\ NothingSuppliedFor(slotted.element, slotted.light, paths, k))
              => TagAt(slotted.result, paths[k]).children =
                    TagAt(slotted.element, paths[k]).children

\* the children of the slot elements of a tree, of those from position k of
\* paths on, one after the other
RECURSIVE SlotChildrenFrom(_, _, _)
SlotChildrenFrom(tags, paths, k) ==
    IF k > Len(paths) THEN <<>>
    ELSE TagAt(tags, paths[k]).children \o SlotChildrenFrom(tags, paths, k + 1)

\* how often a node is among the nodes of a list
Occurrences(node, nodes) == Cardinality({n \in DOMAIN nodes : nodes[n] = node})

\* C35: when the component's markup has an unnamed receiver, every top-level
\* node of the content given to applySlots (a text node, an element with or
\* without a slot attribute, also a second element of a slot name) is in the
\* receivers of the result as often as it is in the content: nothing is
\* lost and nothing is duplicated.
C35_EveryContentNodeInOneReceiver ==
    (slotted.applied /\ HasUnnamedReceiver(slotted.element)) =>
       LET held == SlotChildrenFrom(slotted.result,
                                    AllSlotPaths(slotted.element, 1, <<>>), 1)
       IN  \A n \in DOMAIN slotted.light :
              Occurrences(slotted.light[n], held)
                 = Occurrences(slotted.light[n], slotted.light)

\* what the code does satisfy: no node of the content is in the receivers
\* more often than in the content
NoContentNodeDuplicated ==
    (slotted.applied /\ HasUnnamedReceiver(slotted.element)) =>
       LET held == SlotChildrenFrom(slotted.result,
                                    AllSlotPaths(slotted.element, 1, <<>>), 1)
       IN  \A n \in DOMAIN slotted.light :
              Occurrences(slotted.light[n], held)
                 <= Occurrences(slotted.light[n], slotted.light)

\* C36: on the tag a render returns, every attribute the call passed that is
\* neither a reflected nor a private property of the definition, and that
\* the instance did not set itself during the render, has the value that was
\* passed, with and without a property configuration.
C36_ExplicitAttributesKeepTheirValue ==
    \A k \in ReturnedOk :
       \A a \in DOMAIN ExplicitAttributes(k) \ DOMAIN SetByInstance(k) :
          /\ a \in DOMAIN outputs[k].dom.attributes
          /\ outputs[k].dom.attributes[a] = GivenAttributes(k)[a]

\* what the code does satisfy: the same for the definitions without a
\* property configuration, and the presence of the attribute for all
ExplicitAttributesWithoutPropertyConfiguration ==
    \A k \in ReturnedOk :
       \A a \in DOMAIN ExplicitAttributes(k) \ DOMAIN SetByInstance(k) :
          /\ a \in DOMAIN outputs[k].dom.attributes
          /\ ~HasPropsConfig(outputs[k].element)
                => outputs[k].dom.attributes[a] = GivenAttributes(k)[a]

\* a call of the function listenToComponent returned for registration n
\* after that function was called before
SecondCallOfReturned(n) ==
    /\ registrations[n].via = "listenToComponent"
    /\ registrations[n].called
    /\ Becomes(RemoveSelf(n, registrations[n], attached, listenedToElements))
    /\ UNCHANGED <<dollar, usedElements>>

\* C37: a second call of the function listenToComponent returned changes
\* nothing: the listeners attached and the listeners tracked for the base
\* are what they were before the call, so that every other listener of the
\* event can still be detached by its own function and by
\* removeAllElementListeners.
C37_SecondCallOfRemoverChangesNothing ==
    [][\A n \in DOMAIN registrations :
          SecondCallOfReturned(n) =>
             /\ attached' = attached
             /\ listenedToElements' = listenedToElements]_vars
====
